---------------------------- MODULE Spec2Model ----------------------------
(***************************************************************************)
(* Verification model of the search service (indexer, indexer-bigquery,   *)
(* archive and fork resolver).  Every component is a small state machine   *)
(* translated from its Go source; each component has its own              *)
(* specification (SpecBoot, SpecNextBase, SpecResolve, SpecFork) so that   *)
(* the state spaces stay independent.                                      *)
(***************************************************************************)
EXTENDS Integers, Sequences, FiniteSets, TLC

VARIABLES
    \* ---- indexer.Indexer (src/unnamed/part_004) ----
    shardSize,          \* Indexer.shardSize
    StartBlockNum,      \* Indexer.StartBlockNum
    bootCalls,          \* arguments Bootstrap was called with, in order
    bootErr,            \* what the last Bootstrap call returned
    pipelineBootstraps, \* arguments pipeline.Bootstrap was called with, in order
    \* ---- archive resolveStartBlock (src/unnamed/part_002) ----
    rsStartBlock,       \* config.StartBlock (int64)
    rsShardSize,        \* config.ShardSize (uint64)
    rsIrrBlockNum,      \* getSearchHighestIrr(peers) (uint64)
    rsOut,              \* Pending, or the pair returned: [val, err]
    \* ---- IndexerBigQuery.NextBaseBlockAfter (src/unnamed/part_000) ----
    nbShardSize,        \* IndexerBigQuery.shardSize
    nbStore,            \* names of the objects in the indexes store
    nbStartBlockNum,    \* argument startBlockNum
    nbPc,               \* "list", "scan", "return", "done"
    nbListErr,          \* TRUE when ListFiles returned an error
    nbRemote,           \* the listing ListFiles returned
    nbIdx,              \* position of the range loop in nbRemote
    nbCount,            \* count of files skipped before the start block
    nextStartBlockNum,  \* the named result nextStartBlockNum
    nbResult,           \* the value returned (meaningful when nbPc = "done")
    \* ---- ForkResolver.StreamUndoMatches (src/app/indexer-bigquery/app.go) ----
    frRefs,             \* req.ForkedBlockRefs: sequence of [BlockNum, BlockID]
    frPc,               \* position in StreamUndoMatches / getBlocksDescending
    frCanceled,         \* the stream context is canceled (ctx.Err() != nil)
    frParsed,           \* search.NewParsedQuery has been called
    frErr,              \* the error StreamUndoMatches returned ("none" while running)
    frBounds,           \* [lowest, highest, libnum] of getBlocksDescending
    frRefsMap,          \* refsMap: the requested IDs not met yet
    frOut,              \* out: the blocks collected by the handler
    frComplete,         \* complete
    frSrc,              \* the file source: "idle", "running", or its termination error
    frDelivered,        \* the blocks the file source has passed to the handler
    frBlocks,           \* blocks, libnum, err as assigned at line 631
    frBlkIdx,           \* position of "for _, blk := range blocks"
    frMatches,          \* matches of the current block
    frI,                \* i of "for i := len(matches) - 1; i >= 0; i--", plus 1
    frSent,             \* the matches passed to stream.Send, in order
    frExit,             \* the statement StreamUndoMatches returned at ("none" before)
    \* ---- ArchiveBackend.StreamMatches (src/unnamed/part_005) ----
    smReq,              \* req: the BackendRequest
    smPeer,             \* the pointers of b.searchPeer: [tail, irr, head]
    smPc,               \* "options", "parse", "bounds", "loop", "done"
    smCanceled,         \* ctx.Err() == context.Canceled
    smParsed,           \* search.NewParsedQuery has been called
    smInstalled,        \* "defer stream.SetTrailer(trailer)" has been executed
    smTrailer,          \* trailer["last-block-read"] of the local metadata
    smStreamTrailer,    \* the values stream.SetTrailer was called with, in order
    smRun,              \* the run goroutine: "idle", "running", "failed", "closed"
    smResults,          \* archiveQuery.Results: the matches not received yet
    smErrors,           \* archiveQuery.Errors: the values not received yet
    smEmitted,          \* every match run has put on Results, in order
    smLastBlockRead,    \* archiveQuery.LastBlockRead
    smSent,             \* the matches passed to stream.Send, in order
    smErr,              \* what StreamMatches returned ("none" while running)
    smExit,             \* the return statement StreamMatches left by ("none" while running)
    \* ---- one service process: archive App.Run (src/unnamed/part_002),
    \* ---- ArchiveBackend.Launch / stop (src/unnamed/part_005), and
    \* ---- ForkResolver.Launch (src/app/indexer-bigquery/app.go) ----
    svKind,             \* the application the process runs: "archive", "forkresolver"
    svTrace,            \* the steps executed so far, in order: [step, ok]
    pePeer,             \* the fields of the process's searchPeer record
    peOps,              \* the operations on searchPeer, in order: [by, op, ...]
    aaCfg,              \* a.config of the archive app
    aaIrr,              \* getSearchHighestIrr(a.config.Dmesh.Peers())
    aaPc,               \* position of App.Run
    aaRet,              \* what App.Run returned ("none" while running)
    aaResolved,         \* resolvedStartBlockNum
    aaPoolErr,          \* archive.NewIndexPool returned an error
    aaLast,             \* indexPool.LastReadOnlyIndexedBlock() and ...BlockID()
    aaShut,             \* the app's shutter: "up", "down"
    aaOnTerm,           \* the app's OnTerminating callback is registered
    abPc,               \* position of ArchiveBackend.Launch ("none" before go Launch)
    abShut,             \* the backend's shutter: "up", "terminating", "terminated"
    abRegistered,       \* the backend's OnTerminating callback is registered
    abHasPeer,          \* b.searchPeer != nil
    abHTTP,             \* b.httpServer: "nil", "serving", "shutdown"
    abShuttingDown,     \* b.shuttingDown
    abClosed,           \* pool.CloseIndexes() has been called
    stPc,               \* position of ArchiveBackend.stop ("idle" before it runs)
    fsPc,               \* position of ForkResolver.Launch / startGrpcServer
    fsShut,             \* the fork resolver's shutter: "up", or the Shutdown error
    fsServing,          \* the goroutine of s.Serve(lis) has been started
    fsShutdowns,        \* the errors f.Shutter.Shutdown was called with, in order
    \* ---- indexer.Indexer.Launch and Shutdown (src/unnamed/part_004) ----
    ixAppShut,          \* the shutter of the application: "up", "down"
    ixShut,             \* the shutter of the indexer: "up", "terminating", "terminated"
    ixShutErr,          \* the error of the first Shutdown call ("none" before it)
    ixRegistered,       \* the OnTerminating callback of Launch is registered
    ixPc,               \* position of Launch: "register", "run", "running", "returned"
    ixCb,               \* position of the callback: "idle", "source", "cleanup", "wait", "done"
    ixSrc,              \* i.source: "idle", "running", "ended", "shutdown"
    ixSrcErr,           \* i.source.Err()
    ixSrcShutdowns,     \* the errors i.source.Shutdown was called with, in order
    ixShuttingDown,     \* i.shuttingDown
    ixUploads,          \* the uploads of the pipeline that are in flight
    ixWaited,           \* pipeline.WaitOnUploads() has returned
    ixLaunchArg,        \* the error Launch passed to i.Shutdown ("none" before)
    \* ---- live App.getStartBlock (src/app/indexer-bigquery/app.go) ----
    gsTolerance,        \* a.config.StartBlockDriftTolerance
    gsTerminating,      \* a.IsTerminating()
    gsPc,               \* "check", "mesh", "stream", "network", "done"
    gsIterations,       \* TRUE once an iteration of the loop has run to its end
    gsSeen,             \* the LIBs of the last iteration: [archive, stream, network]
    gsRet,              \* what getStartBlock returned: [ref, err]
    gsAfterTerm,        \* iterations begun since the application started terminating
    laPc,               \* position of the live App.Run
    laRet,              \* what the live App.Run returned ("none" while running)
    laHub,              \* lb.SetupSubscriptionHub was called
    laLaunched,         \* the goroutine that launches the live backend was started
    \* ---- indexer.Indexer.BuildBatchPipeline / BuildLivePipeline (src/unnamed/part_004) ----
    ppMode,             \* the pipeline built: "batch", "live"
    ppPc,               \* "build" before the pipeline is built, then "run"
    ppStart,            \* argument startBlockNum (batch)
    ppLookback,         \* argument numberOfBlocksToFetchBeforeStarting (batch)
    ppLast,             \* argument lastProcessedBlock
    ppFrom,             \* the start block of the file source
    ppGateID,           \* the block whose ID the BlockIDGate waits for (live)
    ppPassed,           \* the gate has let a block through
    ppRestarts,         \* how many times the eternal source has restarted its source
    ppSrcNext,          \* the number of the next block the file source reads (batch)
    ppSourced,          \* the blocks the current source has handed out (live)
    ppReceived,         \* the blocks the forkable has received
    ppThrough,          \* the blocks the current gate has let through
    ppIrrNum,           \* the number of the last block the forkable found irreversible
    ppHandled,          \* the steps the pipeline has received: [step, id, num]
    \* ---- BigQueryShardIndex: newShardIndex, containsBlockNum (src/unnamed/part_000) ----
    shBase,             \* argument baseBlockNum of the first shard
    shSize,             \* argument shardSize of both shards
    shPc,               \* "new", then "next", then "probe"
    shShard,            \* the shard created at shBase
    shNextShard,        \* the shard created at shBase + shSize
    shNum,              \* the block number last asked for, -1 before
    shIn,               \* what shShard.containsBlockNum(shNum) returned
    shInNext,           \* what shNextShard.containsBlockNum(shNum) returned
    \* ---- PreIndexer.Preprocess and RunSingleIndexQuery as TestPreIndexerRunSingleIndexQuery drives them (src/unnamed/part_003) ----
    piBlock,            \* the decoded block handed to Preprocess
    piQuery,            \* the parsed query
    piLow,              \* argument lowBlockNum
    piHigh,             \* argument highBlockNum
    piPc,               \* "preprocess", then "query", then "done"
    piIndex,            \* the SingleIndex Preprocess returned
    piMatches,          \* the matches RunSingleIndexQuery returned
    \* ---- indexer-bigquery App.resolveStartBlock and nextLiveStartBlock (src/app/indexer-bigquery/app.go) ----
    raCfg,              \* a.config: EnableBatchMode, StartBlock
    raPc,               \* position of resolveStartBlock
    raLib,              \* the LIB number search.GetLibInfo returned, -1 before
    raTarget,           \* targetStartBlock
    raErr,              \* the error resolveStartBlock returned ("none" while running)
    raStoreCalls,       \* the calls of dexer.NextBaseBlockAfter: their arguments
    \* ---- BigQueryShardIndex.getOCFWriter and Index (src/unnamed/part_000) ----
    owShard,            \* the fields of the shard: scratch file, writer, and what was done to them
    owRet,              \* what the last call of getOCFWriter returned ("none" before)
    owLog,              \* the Index calls made: the document and the error returned
    owPc                \* "running", or "panicked" once the process has died

varsBoot == <<shardSize, StartBlockNum, bootCalls, bootErr, pipelineBootstraps>>
varsResolve == <<rsStartBlock, rsShardSize, rsIrrBlockNum, rsOut>>
varsNextBase == <<nbShardSize, nbStore, nbStartBlockNum, nbPc, nbListErr, nbRemote,
                  nbIdx, nbCount, nextStartBlockNum, nbResult>>
varsFork == <<frRefs, frPc, frCanceled, frParsed, frErr, frBounds, frRefsMap, frOut,
              frComplete, frSrc, frDelivered, frBlocks, frBlkIdx, frMatches, frI, frSent,
              frExit>>
varsStream == <<smReq, smPeer, smPc, smCanceled, smParsed, smInstalled, smTrailer,
                smStreamTrailer, smRun, smResults, smErrors, smEmitted,
                smLastBlockRead, smSent, smErr, smExit>>
varsService == <<svKind, svTrace, pePeer, peOps, aaCfg, aaIrr, aaPc, aaRet, aaResolved,
                 aaPoolErr, aaLast, aaShut, aaOnTerm, abPc, abShut, abRegistered,
                 abHasPeer, abHTTP, abShuttingDown, abClosed, stPc, fsPc, fsShut,
                 fsServing, fsShutdowns>>
varsLaunch == <<ixAppShut, ixShut, ixShutErr, ixRegistered, ixPc, ixCb, ixSrc, ixSrcErr, ixSrcShutdowns, ixShuttingDown, ixUploads, ixWaited, ixLaunchArg>>
varsStart == <<gsTolerance, gsTerminating, gsPc, gsIterations, gsSeen, gsRet,
               gsAfterTerm, laPc, laRet, laHub, laLaunched>>
varsPipe == <<ppMode, ppPc, ppStart, ppLookback, ppLast, ppFrom, ppGateID, ppPassed, ppRestarts, ppSrcNext, ppSourced, ppReceived, ppThrough, ppIrrNum, ppHandled>>
varsShard == <<shBase, shSize, shPc, shShard, shNextShard, shNum, shIn, shInNext>>
varsPreIndex == <<piBlock, piQuery, piLow, piHigh, piPc, piIndex, piMatches>>
varsIxResolve == <<raCfg, raPc, raLib, raTarget, raErr, raStoreCalls>>
varsWriter == <<owShard, owRet, owLog, owPc>>
vars == <<varsBoot, varsResolve, varsNextBase, varsFork, varsStream, varsService, varsLaunch, varsStart, varsPipe, varsShard, varsPreIndex, varsIxResolve, varsWriter>>

\* what the actions of one component leave unchanged: the other components
othersBoot == <<varsResolve, varsNextBase, varsFork, varsStream, varsService, varsLaunch, varsStart, varsPipe, varsShard, varsPreIndex, varsIxResolve, varsWriter>>
othersResolve == <<varsBoot, varsNextBase, varsFork, varsStream, varsService, varsLaunch, varsStart, varsPipe, varsShard, varsPreIndex, varsIxResolve, varsWriter>>
othersNextBase == <<varsBoot, varsResolve, varsFork, varsStream, varsService, varsLaunch, varsStart, varsPipe, varsShard, varsPreIndex, varsIxResolve, varsWriter>>
othersFork == <<varsBoot, varsResolve, varsNextBase, varsStream, varsService, varsLaunch, varsStart, varsPipe, varsShard, varsPreIndex, varsIxResolve, varsWriter>>
othersStream == <<varsBoot, varsResolve, varsNextBase, varsFork, varsService, varsLaunch, varsStart, varsPipe, varsShard, varsPreIndex, varsIxResolve, varsWriter>>
othersService == <<varsBoot, varsResolve, varsNextBase, varsFork, varsStream, varsLaunch, varsStart, varsPipe, varsShard, varsPreIndex, varsIxResolve, varsWriter>>
othersLaunch == <<varsBoot, varsResolve, varsNextBase, varsFork, varsStream, varsService, varsStart, varsPipe, varsShard, varsPreIndex, varsIxResolve, varsWriter>>
othersStart == <<varsBoot, varsResolve, varsNextBase, varsFork, varsStream, varsService, varsLaunch, varsPipe, varsShard, varsPreIndex, varsIxResolve, varsWriter>>
othersPipe == <<varsBoot, varsResolve, varsNextBase, varsFork, varsStream, varsService, varsLaunch, varsStart, varsShard, varsPreIndex, varsIxResolve, varsWriter>>
othersShard == <<varsBoot, varsResolve, varsNextBase, varsFork, varsStream, varsService, varsLaunch, varsStart, varsPipe, varsPreIndex, varsIxResolve, varsWriter>>
othersPreIndex == <<varsBoot, varsResolve, varsNextBase, varsFork, varsStream, varsService, varsLaunch, varsStart, varsPipe, varsShard, varsIxResolve, varsWriter>>
othersIxResolve == <<varsBoot, varsResolve, varsNextBase, varsFork, varsStream, varsService, varsLaunch, varsStart, varsPipe, varsShard, varsPreIndex, varsWriter>>
othersWriter == <<varsBoot, varsResolve, varsNextBase, varsFork, varsStream, varsService, varsLaunch, varsStart, varsPipe, varsShard, varsPreIndex, varsIxResolve>>

---------------------------------------------------------------------------
(* Bounds of the model *)

\* width, in bits, of the machine words the model computes with (the code's
\* uint64 / int64 scaled down; all wrap-arounds happen at 2^WordBits)
WordBits == 22
\* small block numbers enumerated as inputs: 0..MaxBlockNum
MaxBlockNum == 11
\* small shard sizes enumerated as inputs: 1..MaxShardSize
MaxShardSize == 4
\* Bootstrap is called at most this many times on one indexer
MaxBootCalls == 2
\* the store holds shards of index 0..MaxShardIdx (bases 0..MaxShardIdx*shardSize)
MaxShardIdx == 3
\* a fork resolution request holds at most MaxRefs block references
MaxRefs == 2
\* requested forked blocks have numbers 0..MaxForkNum
MaxForkNum == 1
\* a block holds at most MaxTrx transactions
MaxTrx == 2

---------------------------------------------------------------------------
(* Machine integers *)

RECURSIVE Pow2(_)
Pow2(n) == IF n = 0 THEN 1 ELSE 2 * Pow2(n - 1)

WordMod == Pow2(WordBits)
MaxUint64 == WordMod - 1
MaxInt64 == (WordMod \div 2) - 1

\* conversion to uint64: the value modulo 2^w
ToUint64(x) == x % WordMod

\* conversion to int64: two's complement reading of the value modulo 2^w
ToInt64(x) == LET u == x % WordMod IN IF u > MaxInt64 THEN u - WordMod ELSE u

\* Go's % on signed integers: truncated division, the result has the sign of a
GoRem(a, b) == IF a >= 0 THEN a % b ELSE 0 - ((0 - a) % b)

\* shard sizes and block numbers the specifications draw their inputs from;
\* the literal values of the documented scenarios are included
ShardSizes == (1..MaxShardSize) \cup {1000, 5000}
BlockNums == (0..MaxBlockNum) \cup {5000, 5001, 10000}

---------------------------------------------------------------------------
(* indexer.Indexer.Bootstrap *)

ErrNil == "nil"
ErrBoundary == "indexer only starts RIGHT BEFORE the index boundaries"
ErrPipeline == "pipeline bootstrap error"

\* a Bootstrap guard that forgets the genesis exception (start block 1)
BootstrapRejectsNoGenesis(start, size) == start % size # 0

\* the guard of Bootstrap: i.StartBlockNum%i.shardSize != 0 && i.StartBlockNum != 1
BootstrapRejects(start, size) == (start % size # 0) /\ (start # 1)

\* Indexer.Bootstrap(startBlockNum): sets StartBlockNum, then either returns
\* the boundary error or returns whatever pipeline.Bootstrap(StartBlockNum) returns
Bootstrap(startBlockNum) ==
    /\ Len(bootCalls) < MaxBootCalls
    /\ bootCalls' = Append(bootCalls, startBlockNum)
    /\ StartBlockNum' = startBlockNum
    /\ IF BootstrapRejects(startBlockNum, shardSize)
       THEN /\ bootErr' = ErrBoundary
            /\ UNCHANGED pipelineBootstraps
       ELSE /\ pipelineBootstraps' = Append(pipelineBootstraps, startBlockNum)
            /\ bootErr' \in {ErrNil, ErrPipeline}
    /\ UNCHANGED shardSize

BootstrapCall == \E n \in BlockNums : Bootstrap(n)

NextBoot == BootstrapCall /\ UNCHANGED othersBoot

\* a start block the indexer may start at: a multiple of the shard size, or 1
IsMultiple(n, size) == (n \div size) * size = n
OnBoundary(n, size) == (n = 1) \/ IsMultiple(n, size)

\* C1: Bootstrap(startBlockNum) returns the "RIGHT BEFORE the index
\* boundaries" error, without bootstrapping the pipeline, whenever
\* startBlockNum is neither a multiple of shardSize nor 1; for every other
\* startBlockNum it calls the pipeline's Bootstrap with that same number (and
\* returns what the pipeline returns).
C1_BootstrapBoundary ==
    /\ pipelineBootstraps = SelectSeq(bootCalls, LAMBDA n : OnBoundary(n, shardSize))
    /\ bootCalls # <<>> =>
          LET last == bootCalls[Len(bootCalls)]
          IN  /\ StartBlockNum = last
              /\ (bootErr = ErrBoundary) <=> ~OnBoundary(last, shardSize)
              /\ OnBoundary(last, shardSize) => bootErr \in {ErrNil, ErrPipeline}

\* C1 witness: with shardSize 5000, Bootstrap(5001) was rejected and a later
\* Bootstrap(1) went through to the pipeline
C1_Witness ==
    /\ shardSize = 5000
    /\ bootCalls = <<5001, 1>>
    /\ pipelineBootstraps = <<1>>
    /\ bootErr = ErrNil

---------------------------------------------------------------------------
(* archive resolveStartBlock *)

ErrMisaligned == "start block misaligned with shard size"
ErrTooLarge == "relative start block is to large"

\* resolveStartBlock without the shard alignment of a relative start block
resolveStartBlockNoAlign(startBlock, size, irrBlockNum) ==
    IF startBlock >= 0
    THEN IF GoRem(startBlock, ToInt64(size)) # 0
         THEN [val |-> 0, err |-> ErrMisaligned]
         ELSE [val |-> ToUint64(startBlock), err |-> ErrNil]
    ELSE LET absoluteStartBlock == ToInt64(ToInt64(irrBlockNum) + startBlock)
         IN  IF absoluteStartBlock < 0
             THEN [val |-> 0, err |-> ErrTooLarge]
             ELSE [val |-> ToUint64(absoluteStartBlock), err |-> ErrNil]

\* resolveStartBlock without the misalignment check of an absolute start block
resolveStartBlockNoCheck(startBlock, size, irrBlockNum) ==
    IF startBlock >= 0
    THEN [val |-> ToUint64(startBlock), err |-> ErrNil]
    ELSE LET sum == ToInt64(ToInt64(irrBlockNum) + startBlock)
             absoluteStartBlock == ToInt64(sum - GoRem(sum, ToInt64(size)))
         IN  IF absoluteStartBlock < 0
             THEN [val |-> 0, err |-> ErrTooLarge]
             ELSE [val |-> ToUint64(absoluteStartBlock), err |-> ErrNil]

resolveStartBlock(startBlock, size, irrBlockNum) ==
    IF startBlock >= 0
    THEN IF GoRem(startBlock, ToInt64(size)) # 0
         THEN [val |-> 0, err |-> ErrMisaligned]
         ELSE [val |-> ToUint64(startBlock), err |-> ErrNil]
    ELSE LET sum == ToInt64(ToInt64(irrBlockNum) + startBlock)
             absoluteStartBlock == ToInt64(sum - GoRem(sum, ToInt64(size)))
         IN  IF absoluteStartBlock < 0
             THEN [val |-> 0, err |-> ErrTooLarge]
             ELSE [val |-> ToUint64(absoluteStartBlock), err |-> ErrNil]

\* the configured start blocks: small absolute and relative values, and the
\* values of the documented scenario (StartBlock=-100, irr=1000000)
StartBlocks == ((0 - MaxBlockNum)..MaxBlockNum) \cup {0 - 100, 5000, 5001}
IrrBlockNums == (0..MaxBlockNum) \cup {1000000}

Pending == [val |-> 0, err |-> "pending"]

\* App.Run, src/unnamed/part_002:98-99: the start block is resolved once
ResolveStartBlock ==
    /\ rsOut = Pending
    /\ rsOut' = resolveStartBlock(rsStartBlock, rsShardSize, rsIrrBlockNum)
    /\ UNCHANGED <<rsStartBlock, rsShardSize, rsIrrBlockNum>>

NextResolve == ResolveStartBlock /\ UNCHANGED othersResolve

\* the largest multiple of size that is <= n, for n >= 0
AlignDown(n, size) == (n \div size) * size

\* C6: with a negative (relative) startBlock and irrBlockNum + startBlock >= 0,
\* resolveStartBlock returns, without error, irrBlockNum + startBlock rounded
\* down to a multiple of shardSize.
C6_RelativeStartAligned ==
    (rsOut # Pending /\ rsStartBlock < 0 /\ rsIrrBlockNum + rsStartBlock >= 0) =>
        /\ rsOut.err = ErrNil
        /\ rsOut.val = AlignDown(rsIrrBlockNum + rsStartBlock, rsShardSize)

\* C6 witness: StartBlock=-100, irr=1000000, shardSize=1000 resolved to 999000
C6_Witness ==
    /\ rsStartBlock = 0 - 100
    /\ rsIrrBlockNum = 1000000
    /\ rsShardSize = 1000
    /\ rsOut = [val |-> 999000, err |-> ErrNil]

\* C7: every start block resolveStartBlock returns without error is a multiple
\* of shardSize; a non-negative startBlock that is not a multiple of shardSize
\* is rejected as misaligned, an aligned one is returned unchanged.
C7_ResolvedIsAligned ==
    rsOut # Pending =>
        /\ rsOut.err = ErrNil => IsMultiple(rsOut.val, rsShardSize)
        /\ rsStartBlock >= 0 =>
              IF IsMultiple(rsStartBlock, rsShardSize)
              THEN rsOut = [val |-> rsStartBlock, err |-> ErrNil]
              ELSE rsOut.err = ErrMisaligned

\* C7 witness: start block 5001 with shard size 5000 was rejected as misaligned
C7_Witness ==
    /\ rsStartBlock = 5001
    /\ rsShardSize = 5000
    /\ rsOut.err = ErrMisaligned

\* C24: with a negative startBlock and irrBlockNum + startBlock negative,
\* resolveStartBlock returns the "relative start block is to large" error and
\* no start block.
C24_NegativeSumRejected ==
    (rsOut # Pending /\ rsStartBlock < 0 /\ rsIrrBlockNum + rsStartBlock < 0) =>
        rsOut = [val |-> 0, err |-> ErrTooLarge]

\* a negative sum at least one shard below zero was rejected
C24_RejectedReached ==
    /\ rsStartBlock < 0 /\ rsIrrBlockNum + rsStartBlock <= 0 - rsShardSize
    /\ rsOut = [val |-> 0, err |-> ErrTooLarge]

---------------------------------------------------------------------------
(* IndexerBigQuery.NextBaseBlockAfter *)

\* number of digits of a shard file name: (\d{10})\.avro
NameDigits == 10

\* A file name is a sequence of characters; the suffixes ".avro" and ".tmp"
\* are kept as one token each.
DigitChars == <<"0", "1", "2", "3", "4", "5", "6", "7", "8", "9">>
Digits == {DigitChars[i] : i \in 1..10}
DigitVal(c) == (CHOOSE i \in 1..10 : DigitChars[i] = c) - 1

RECURSIVE Pow10(_)
Pow10(n) == IF n = 0 THEN 1 ELSE 10 * Pow10(n - 1)

\* base formatted as %010d
FormatBase(base) ==
    [i \in 1..NameDigits |-> DigitChars[((base \div Pow10(NameDigits - i)) % 10) + 1]]

\* the name of the shard starting at base: <base:%010d>.avro
ShardFileName(base) == Append(FormatBase(base), ".avro")
\* the name of a partial upload of that shard
TmpFileName(base) == Append(ShardFileName(base), ".tmp")
\* a file of the store that is no shard
OtherFileName == <<"x">>

\* byte order of the characters: '.' < '0'..'9' < 'x', and ".avro" < ".tmp"
CharRank(c) ==
    IF c \in Digits THEN DigitVal(c)
    ELSE IF c = ".avro" THEN 0 - 2
    ELSE IF c = ".tmp" THEN 0 - 1
    ELSE 10

\* lexicographic order of two names
RECURSIVE LexLess(_, _)
LexLess(a, b) ==
    IF b = <<>> THEN FALSE
    ELSE IF a = <<>> THEN TRUE
    ELSE IF Head(a) = Head(b) THEN LexLess(Tail(a), Tail(b))
    ELSE CharRank(Head(a)) < CharRank(Head(b))

\* the names of a set, in lexicographic order
RECURSIVE SortNames(_)
SortNames(S) ==
    IF S = {} THEN <<>>
    ELSE LET least == CHOOSE n \in S : \A m \in S \ {n} : LexLess(n, m)
         IN  <<least>> \o SortNames(S \ {least})

HasSuffix(name, suffix) == name # <<>> /\ name[Len(name)] = suffix

\* indexesStore.ListFiles(ctx, prefix, ".tmp", 9999999): the names of the
\* store that do not end with the excluded suffix, in lexicographic order
ListFiles(store, excludeSuffix) ==
    SortNames({n \in store : ~HasSuffix(n, excludeSuffix)})

\* remotePathRE.FindStringSubmatch(file): the digits of the leftmost match of
\* (\d{10})\.avro in the name, or <<>> (nil) when there is none
FindStringSubmatch(file) ==
    LET starts == {i \in 1..Len(file) :
                      /\ i + NameDigits <= Len(file)
                      /\ \A k \in 0..(NameDigits - 1) : file[i + k] \in Digits
                      /\ file[i + NameDigits] = ".avro"}
    IN  IF starts = {} THEN <<>>
        ELSE LET i == CHOOSE j \in starts : \A k \in starts : j <= k
             IN  SubSeq(file, i, i + NameDigits - 1)

\* startBlockFromFileName: the digits read as a decimal number
RECURSIVE startBlockFromFileName(_)
startBlockFromFileName(digits) ==
    IF digits = <<>> THEN 0
    ELSE ToUint64(10 * startBlockFromFileName(SubSeq(digits, 1, Len(digits) - 1))
                  + DigitVal(digits[Len(digits)]))

\* an alignment that returns the start block unchanged
alignStartBlockIdentity(startBlock, size) == startBlock

\* alignStartBlock: startBlock - (startBlock % i.shardSize)
alignStartBlock(startBlock, size) == ToUint64(startBlock - (startBlock % size))

\* a hole test that never finds a hole
IsHoleNever(fileStartBlock, next, size) == FALSE

\* the hole test of the scan: fileStartBlock > nextStartBlockNum+i.shardSize
IsHole(fileStartBlock, next, size) == fileStartBlock > ToUint64(next + size)

\* nextStartBlockNum = startBlockNum; remote, err := ListFiles(...);
\* on error the function returns startBlockNum as it is
NB_ListFiles ==
    /\ nbPc = "list"
    /\ nextStartBlockNum' = nbStartBlockNum
    /\ \/ /\ nbListErr' = TRUE
          /\ nbResult' = nbStartBlockNum
          /\ nbPc' = "done"
          /\ UNCHANGED nbRemote
       \/ /\ nbListErr' = FALSE
          /\ nbRemote' = ListFiles(nbStore, ".tmp")
          /\ nbPc' = "scan"
          /\ UNCHANGED nbResult
    /\ UNCHANGED <<nbShardSize, nbStore, nbStartBlockNum, nbIdx, nbCount>>

\* one iteration of "for _, file := range remote"
NB_ScanFile ==
    /\ nbPc = "scan"
    /\ nbIdx <= Len(nbRemote)
    /\ LET match == FindStringSubmatch(nbRemote[nbIdx])
           fileStartBlock == startBlockFromFileName(match)
       IN  IF match = <<>>
           THEN \* skipping non-index file
                /\ nbIdx' = nbIdx + 1
                /\ UNCHANGED <<nbPc, nbCount, nextStartBlockNum>>
           ELSE IF fileStartBlock <= nbStartBlockNum
           THEN \* skipping index file before start block
                /\ nbCount' = nbCount + 1
                /\ nbIdx' = nbIdx + 1
                /\ UNCHANGED <<nbPc, nextStartBlockNum>>
           ELSE IF IsHole(fileStartBlock, nextStartBlockNum, nbShardSize)
           THEN \* found a hole to fill: break
                /\ nbPc' = "return"
                /\ UNCHANGED <<nbIdx, nbCount, nextStartBlockNum>>
           ELSE /\ nextStartBlockNum' = fileStartBlock
                /\ nbIdx' = nbIdx + 1
                /\ UNCHANGED <<nbPc, nbCount>>
    /\ UNCHANGED <<nbShardSize, nbStore, nbStartBlockNum, nbListErr, nbRemote, nbResult>>

\* return i.alignStartBlock(nextStartBlockNum), after the loop ended or broke
NB_Return ==
    /\ \/ nbPc = "return"
       \/ nbPc = "scan" /\ nbIdx > Len(nbRemote)
    /\ nbResult' = alignStartBlock(nextStartBlockNum, nbShardSize)
    /\ nbPc' = "done"
    /\ UNCHANGED <<nbShardSize, nbStore, nbStartBlockNum, nbListErr, nbRemote,
                   nbIdx, nbCount, nextStartBlockNum>>

NextNextBase ==
    \/ NB_ListFiles /\ UNCHANGED othersNextBase
    \/ NB_ScanFile /\ UNCHANGED othersNextBase
    \/ NB_Return /\ UNCHANGED othersNextBase

\* the objects the store may hold: the shards 0..MaxShardIdx, a partial
\* upload of the shard after them, and a file that is no shard
StoreNames(size) ==
    {ShardFileName(k * size) : k \in 0..MaxShardIdx}
        \cup {TmpFileName((MaxShardIdx + 1) * size), OtherFileName}

\* the bases of the shards the store holds (partial uploads excluded)
ShardBases ==
    {b \in {k * nbShardSize : k \in 0..(MaxShardIdx + 1)} : ShardFileName(b) \in nbStore}

NB_Returned == nbPc = "done" /\ ~nbListErr

\* C3: NextBaseBlockAfter returns the base of the first gap of the remote
\* listing: with shards 0, 5000 and 15000 of size 5000, NextBaseBlockAfter(0)
\* is 5000 and NextBaseBlockAfter(5000) is 10000; when startBlockNum is the
\* base of the last remote shard before a gap, the result is
\* startBlockNum + shardSize.
C3_FirstGap ==
    NB_Returned =>
        /\ (nbShardSize = 5000 /\ ShardBases = {0, 5000, 15000} /\ nbStartBlockNum = 0)
              => nbResult = 5000
        /\ ( /\ nbStartBlockNum \in ShardBases
             /\ nbStartBlockNum + nbShardSize \notin ShardBases
             /\ \E b \in ShardBases : b > nbStartBlockNum + nbShardSize )
              => nbResult = nbStartBlockNum + nbShardSize

\* the last base accepted before shard b: the closest shard between the
\* start block and b, or the start block itself
PrevAccepted(bases, b) ==
    LET between == {c \in bases : nbStartBlockNum < c /\ c < b}
    IN  IF between = {} THEN nbStartBlockNum
        ELSE CHOOSE c \in between : \A d \in between : d <= c

\* the shards after the start block that lie more than one shard size beyond
\* the base accepted before them
GapBases(bases) ==
    {b \in bases : b > nbStartBlockNum /\ b > PrevAccepted(bases, b) + nbShardSize}

FirstGapBase(gaps) == CHOOSE b \in gaps : \A c \in gaps : b <= c

\* C4: NextBaseBlockAfter never advances past a gap: once the scan of the
\* sorted listing meets a shard whose base exceeds the last accepted base
\* plus shardSize it stops there, and the base it returns is neither that
\* shard's base nor the base of any shard listed after it.
C4_NeverPastGap ==
    NB_Returned =>
        LET bases == ShardBases
            gaps == GapBases(bases)
        IN  gaps # {} =>
              /\ nbIdx <= Len(nbRemote)
              /\ nbRemote[nbIdx] = ShardFileName(FirstGapBase(gaps))
              /\ \A c \in bases : c >= FirstGapBase(gaps) => nbResult # c

\* C4 witness: shards 0, 5000, 15000 of size 5000; the scan from 0 stopped at
\* the shard 15000 and returned 5000
C4_Witness ==
    /\ NB_Returned
    /\ nbShardSize = 5000
    /\ ShardBases = {0, 5000, 15000}
    /\ nbStartBlockNum = 0
    /\ nbRemote[nbIdx] = ShardFileName(15000)
    /\ nbResult = 5000

\* C5: when the listing holds no shard whose base is greater than
\* startBlockNum (an empty listing, or only names that are no shard or are
\* excluded partial uploads, or only earlier shards), NextBaseBlockAfter
\* returns startBlockNum - (startBlockNum mod shardSize).
C5_NoCandidateAligns ==
    (NB_Returned /\ ~(\E b \in ShardBases : b > nbStartBlockNum)) =>
        nbResult = AlignDown(nbStartBlockNum, nbShardSize)

\* C5 witness: the store holds only a partial upload and a file that is no
\* shard; NextBaseBlockAfter(5001) with shard size 5000 returned 5000
C5_Witness ==
    /\ NB_Returned
    /\ nbShardSize = 5000
    /\ nbStore = {TmpFileName((MaxShardIdx + 1) * 5000), OtherFileName}
    /\ nbStartBlockNum = 5001
    /\ nbResult = 5000

\* C34: for every startBlockNum and every outcome of the remote listing, a
\* listing failure included, the value NextBaseBlockAfter returns is a
\* multiple of shardSize and is >= align(startBlockNum).
C34_ResultAligned ==
    nbPc = "done" =>
        /\ nbResult % nbShardSize = 0
        /\ nbResult >= AlignDown(nbStartBlockNum, nbShardSize)

\* the same for the calls whose listing succeeded
C34_ListedResultAligned ==
    NB_Returned =>
        /\ nbResult % nbShardSize = 0
        /\ nbResult >= AlignDown(nbStartBlockNum, nbShardSize)

\* a call with a start block that is no shard base returned after a listing
\* that succeeded and held a later shard
C34_ListedReached ==
    /\ NB_Returned
    /\ nbStartBlockNum % nbShardSize # 0
    /\ nbResult > nbStartBlockNum

---------------------------------------------------------------------------
(* ForkResolver.StreamUndoMatches *)

\* var MaxLookupBlocks = uint64(10000)
MaxLookupBlocks == 10000

ErrInvalidArgument == "InvalidArgument: invalid argument: no refs requested"
ErrCanceled == "Canceled: context canceled"
ErrParse == "query parse error"
ErrNotFound == "NotFound: not found within 10000 blocks"
ErrMissingFiles == "cannot run forkresolver on missing block files"
ErrEndOfRange == "end of range"
ErrIndex == "createSingleIndex error"
ErrQuery == "failed running single-index query"
ErrFill == "FillProtoSpecific error"
ErrSend == "stream.Send error"

\* block IDs, the numbers of requested blocks, and the numbers of the blocks
\* the block store may hold: the requested numbers, the last number inside
\* the lookup window of the highest request and the first number outside
\* every lookup window
BlockIDs == {"a", "b"}
ForkNums == 0..MaxForkNum
StoreNums == ForkNums \cup {MaxLookupBlocks + MaxForkNum, MaxLookupBlocks + MaxForkNum + 1}
BlockRefs == [BlockNum : ForkNums, BlockID : BlockIDs]
Blocks == [Number : StoreNums, ID : BlockIDs]

\* boundaries(refs): the lowest and the highest requested block number
RECURSIVE boundaries(_)
boundaries(refs) ==
    IF Len(refs) = 1
    THEN [lowest |-> refs[1].BlockNum, highest |-> refs[1].BlockNum]
    ELSE LET rest == boundaries(SubSeq(refs, 1, Len(refs) - 1))
             ref == refs[Len(refs)]
         IN  [lowest |-> IF ref.BlockNum < rest.lowest THEN ref.BlockNum ELSE rest.lowest,
              highest |-> IF ref.BlockNum > rest.highest THEN ref.BlockNum ELSE rest.highest]

\* a map that holds the ID of the first reference only
toMapFirstOnly(refs) == {refs[1].BlockID}

\* toMap(refs): the set of requested block IDs
toMap(refs) == {refs[i].BlockID : i \in 1..Len(refs)}

\* a sort that leaves the blocks in the order the source delivered them
sortDescendingNoSort(blocks) == blocks

\* sortDescending(blocks): sort.SliceStable by decreasing block number; each
\* block is inserted after the blocks whose number is >= its own
RECURSIVE sortDescending(_)
sortDescending(blocks) ==
    IF blocks = <<>> THEN <<>>
    ELSE LET sorted == sortDescending(SubSeq(blocks, 1, Len(blocks) - 1))
             b == blocks[Len(blocks)]
             k == Cardinality({i \in 1..Len(sorted) : sorted[i].Number >= b.Number})
         IN  SubSeq(sorted, 1, k) \o <<b>> \o SubSeq(sorted, k + 1, Len(sorted))

\* the handler's window test: blk.Num() > highest+MaxLookupBlocks
BeyondLookup(blk, highest) == blk.Number > ToUint64(highest + MaxLookupBlocks)

\* a handler test that takes every block for a requested one
IsRequestedAny(blk, refsMap) == TRUE

\* the handler's test refsMap[blk.ID()]
IsRequested(blk, refsMap) == blk.ID \in refsMap

\* search.NewCursor(blk.Num(), blk.ID(), match.TransactionIDPrefix())
NewCursor(num, id, trxIDPrefix) == [BlockNum |-> num, BlockID |-> id, TrxIDPrefix |-> trxIDPrefix]

\* the ascending sequence of the numbers of a set
RECURSIVE AscendingSeq(_)
AscendingSeq(S) ==
    IF S = {} THEN <<>>
    ELSE LET least == CHOOSE x \in S : \A y \in S : x <= y
         IN  <<least>> \o AscendingSeq(S \ {least})

\* search.RunSingleIndexQuery(ctx, false, ...) over the single index of blk:
\* the possible results, one match per matching transaction of the block, in
\* ascending transaction order
RunSingleIndexQuery(blk) ==
    {[i \in 1..Len(AscendingSeq(T)) |->
         [Index |-> AscendingSeq(T)[i], TrxIDPrefix |-> <<blk.ID, AscendingSeq(T)[i]>>]]
       : T \in SUBSET (0..(MaxTrx - 1))}

\* the pbsearch.SearchMatch built for one match of the forked block blk
UndoMatch(match, blk, libnum) ==
    [TrxIdPrefix |-> match.TrxIDPrefix,
     Index |-> match.Index,
     Cursor |-> NewCursor(blk.Number, blk.ID, match.TrxIDPrefix),
     IrrBlockNum |-> libnum,
     BlockNum |-> blk.Number,
     Undo |-> TRUE]

\* the test of the request that lets every request through
NoRefsNever(refs) == FALSE

\* len(req.ForkedBlockRefs) == 0
NoRefs(refs) == Len(refs) = 0

\* for i := len(matches) - 1: the loop starts at the last match
FirstMatchIndex(matches) == Len(matches)

\* i--: the loop walks backward and ends after the first match
NextMatchIndex(i, matches) == i - 1

\* a check of the context that never sees the cancellation
CtxErrNever(canceled) == FALSE

\* ctx.Err() != nil, line 667
CtxErr(canceled) == canceled

frUnchangedGetBlocks == UNCHANGED <<frBounds, frRefsMap, frOut, frComplete, frSrc, frDelivered>>
frUnchangedLoop == UNCHANGED <<frBlkIdx, frMatches, frI, frSent>>

\* the client cancels the stream context while the call is running
FR_Cancel ==
    /\ frPc # "done"
    /\ ~frCanceled
    /\ frCanceled' = TRUE
    /\ UNCHANGED <<frExit, frRefs, frPc, frParsed, frErr, frBlocks>>
    /\ frUnchangedGetBlocks
    /\ frUnchangedLoop

\* if len(req.ForkedBlockRefs) == 0 { return InvalidArgument }
FR_CheckRefs ==
    /\ frPc = "check"
    /\ IF NoRefs(frRefs)
       THEN frPc' = "done" /\ frErr' = ErrInvalidArgument /\ frExit' = "refs"
       ELSE frPc' = "parse" /\ UNCHANGED <<frErr, frExit>>
    /\ UNCHANGED <<frRefs, frCanceled, frParsed, frBlocks>>
    /\ frUnchangedGetBlocks
    /\ frUnchangedLoop

\* bquery, err := search.NewParsedQuery(f.protocol, req.Query)
FR_ParseQuery ==
    /\ frPc = "parse"
    /\ frParsed' = TRUE
    /\ \/ frPc' = "getBlocks" /\ UNCHANGED <<frErr, frExit>>
       \/ frPc' = "done" /\ frErr' = ErrParse /\ frExit' = "parse"
       \/ frCanceled /\ frPc' = "done" /\ frErr' = ErrCanceled /\ frExit' = "parseCanceled"
    /\ UNCHANGED <<frRefs, frCanceled, frBlocks>>
    /\ frUnchangedGetBlocks
    /\ frUnchangedLoop

\* getBlocksDescending up to "go src.Run()": the boundaries, libnum, the map
\* of requested IDs and the file source started at the lowest block
FR_StartSource ==
    /\ frPc = "getBlocks"
    /\ LET b == boundaries(frRefs)
       IN  frBounds' = [lowest |-> b.lowest, highest |-> b.highest,
                        libnum |-> ToUint64(b.lowest - 1)]
    /\ frOut' = <<>>
    /\ frRefsMap' = toMap(frRefs)
    /\ frComplete' = FALSE
    /\ frSrc' = "running"
    /\ frPc' = "source"
    /\ UNCHANGED <<frExit, frRefs, frCanceled, frParsed, frErr, frDelivered, frBlocks>>
    /\ frUnchangedLoop

\* the handler h, called by the file source with the next block of the store
Handler(blk) ==
    /\ frDelivered' = Append(frDelivered, blk)
    /\ IF BeyondLookup(blk, frBounds.highest)
       THEN /\ frSrc' = ErrNotFound
            /\ UNCHANGED <<frOut, frRefsMap, frComplete>>
       ELSE LET hit == IsRequested(blk, frRefsMap)
                left == IF hit THEN frRefsMap \ {blk.ID} ELSE frRefsMap
            IN  /\ frOut' = IF hit THEN Append(frOut, blk) ELSE frOut
                /\ frRefsMap' = left
                /\ frComplete' = (frComplete \/ left = {})
                /\ frSrc' = IF left = {} THEN ErrEndOfRange ELSE "running"

\* the file source reads the next block: blocks come from the lowest
\* requested number on, in the order of their numbers, each block once
FR_SourceBlock ==
    /\ frPc = "source"
    /\ frSrc = "running"
    /\ \E blk \in Blocks :
          /\ blk.Number >= frBounds.lowest
          /\ \A i \in 1..Len(frDelivered) :
                frDelivered[i].ID # blk.ID /\ frDelivered[i].Number <= blk.Number
          /\ Handler(blk)
    /\ UNCHANGED <<frExit, frRefs, frPc, frCanceled, frParsed, frErr, frBounds, frBlocks>>
    /\ frUnchangedLoop

\* the file source finds no further block file: the not-found callback shuts
\* it down
FR_SourceNotFound ==
    /\ frPc = "source"
    /\ frSrc = "running"
    /\ frSrc' = ErrMissingFiles
    /\ UNCHANGED <<frExit, frRefs, frPc, frCanceled, frParsed, frErr, frBounds, frRefsMap,
                   frOut, frComplete, frDelivered, frBlocks>>
    /\ frUnchangedLoop

\* select, case <-ctx.Done(): getBlocksDescending returns nil, 0, ctx.Err()
FR_SelectDone ==
    /\ frPc = "source"
    /\ frCanceled
    /\ frBlocks' = [blocks |-> <<>>, libnum |-> 0, err |-> ErrCanceled]
    /\ frBlkIdx' = 1
    /\ frPc' = "range"
    /\ UNCHANGED <<frExit, frRefs, frCanceled, frParsed, frErr, frMatches, frI, frSent>>
    /\ frUnchangedGetBlocks

\* a getBlocksDescending that returns the blocks collected so far when the
\* source ended before every requested ID was met
FR_SelectTerminatingPartial ==
    /\ frPc = "source"
    /\ frSrc \notin {"idle", "running"}
    /\ frBlocks' = [blocks |-> sortDescending(frOut), libnum |-> frBounds.libnum,
                    err |-> IF frComplete THEN ErrNil ELSE frSrc]
    /\ frBlkIdx' = 1
    /\ frPc' = "range"
    /\ UNCHANGED <<frExit, frRefs, frCanceled, frParsed, frErr, frMatches, frI, frSent>>
    /\ frUnchangedGetBlocks

\* select, case <-src.Terminating(): nil, 0, src.Err() unless complete, else
\* the collected blocks sorted by decreasing number
FR_SelectTerminating ==
    /\ frPc = "source"
    /\ frSrc \notin {"idle", "running"}
    /\ frBlocks' = IF ~frComplete
                   THEN [blocks |-> <<>>, libnum |-> 0, err |-> frSrc]
                   ELSE [blocks |-> sortDescending(frOut), libnum |-> frBounds.libnum,
                         err |-> ErrNil]
    /\ frBlkIdx' = 1
    /\ frPc' = "range"
    /\ UNCHANGED <<frExit, frRefs, frCanceled, frParsed, frErr, frMatches, frI, frSent>>
    /\ frUnchangedGetBlocks

\* for _, blk := range blocks: the single index of the next block is built
\* and queried; after the last block StreamUndoMatches returns nil
FR_RangeBlocks ==
    /\ frPc = "range"
    /\ IF frBlkIdx > Len(frBlocks.blocks)
       THEN /\ frPc' = "done"
            /\ frErr' = ErrNil
            /\ frExit' = "end"
            /\ UNCHANGED <<frBlkIdx, frMatches, frI>>
       ELSE \/ /\ frPc' = "done"
               /\ frErr' = ErrIndex
               /\ frExit' = "index"
               /\ UNCHANGED <<frBlkIdx, frMatches, frI>>
            \/ /\ frPc' = "done"
               /\ frErr' = ErrQuery
               /\ frExit' = "query"
               /\ UNCHANGED <<frBlkIdx, frMatches, frI>>
            \/ /\ frCanceled
               /\ frPc' = "done"
               /\ frErr' = ErrCanceled
               /\ frExit' = "queryCanceled"
               /\ UNCHANGED <<frBlkIdx, frMatches, frI>>
            \/ \E matches \in RunSingleIndexQuery(frBlocks.blocks[frBlkIdx]) :
                  /\ frMatches' = matches
                  /\ frI' = FirstMatchIndex(matches)
                  /\ IF FirstMatchIndex(matches) = 0
                     THEN frBlkIdx' = frBlkIdx + 1 /\ UNCHANGED frPc
                     ELSE frPc' = "emit" /\ UNCHANGED frBlkIdx
                  /\ UNCHANGED <<frErr, frExit>>
    /\ UNCHANGED <<frRefs, frCanceled, frParsed, frBlocks, frSent>>
    /\ frUnchangedGetBlocks

\* one iteration of the loop over the matches: the match is built, filled,
\* and sent unless the context is canceled
FR_SendMatch ==
    /\ frPc = "emit"
    /\ LET blk == frBlocks.blocks[frBlkIdx]
           pbMatch == UndoMatch(frMatches[frI], blk, frBlocks.libnum)
           next == NextMatchIndex(frI, frMatches)
       IN  \/ /\ frPc' = "done"
              /\ frErr' = ErrFill
              /\ frExit' = "fill"
              /\ UNCHANGED <<frBlkIdx, frI, frSent>>
           \/ /\ CtxErr(frCanceled)
              /\ frPc' = "done"
              /\ frErr' = ErrNil
              /\ frExit' = "ctxCheck"
              /\ UNCHANGED <<frBlkIdx, frI, frSent>>
           \/ /\ ~CtxErr(frCanceled)
              /\ frPc' = "done"
              /\ frErr' = ErrSend
              /\ frExit' = "send"
              /\ UNCHANGED <<frBlkIdx, frI, frSent>>
           \/ /\ ~CtxErr(frCanceled)
              /\ UNCHANGED frExit
              /\ frSent' = Append(frSent, pbMatch)
              /\ frI' = next
              /\ IF next = 0
                 THEN frBlkIdx' = frBlkIdx + 1 /\ frPc' = "range"
                 ELSE UNCHANGED <<frBlkIdx, frPc>>
              /\ UNCHANGED frErr
    /\ UNCHANGED <<frRefs, frCanceled, frParsed, frBlocks, frMatches>>
    /\ frUnchangedGetBlocks

NextFork ==
    \/ FR_Cancel /\ UNCHANGED othersFork
    \/ FR_CheckRefs /\ UNCHANGED othersFork
    \/ FR_ParseQuery /\ UNCHANGED othersFork
    \/ FR_StartSource /\ UNCHANGED othersFork
    \/ FR_SourceBlock /\ UNCHANGED othersFork
    \/ FR_SourceNotFound /\ UNCHANGED othersFork
    \/ FR_SelectDone /\ UNCHANGED othersFork
    \/ FR_SelectTerminating /\ UNCHANGED othersFork
    \/ FR_RangeBlocks /\ UNCHANGED othersFork
    \/ FR_SendMatch /\ UNCHANGED othersFork

\* the requests: up to MaxRefs references to forked blocks
Requests == UNION {[1..n -> BlockRefs] : n \in 0..MaxRefs}

\* the requested ID id was not met before the file source read block i
MissedBefore(id, i) == \A j \in 1..(i - 1) : frDelivered[j].ID # id

\* the file source read a block beyond highest + MaxLookupBlocks before every
\* requested ID was met
LookupExhausted ==
    /\ frRefs # <<>>
    /\ \E i \in 1..Len(frDelivered) :
          /\ frDelivered[i].Number > boundaries(frRefs).highest + MaxLookupBlocks
          /\ \E id \in toMap(frRefs) : MissedBefore(id, i)

\* C2: StreamUndoMatches ends with the NOT_FOUND error ("not found within
\* 10000 blocks") whenever a requested forked block ID is not met among the
\* blocks read up to the highest requested number + MaxLookupBlocks; it never
\* ends successfully then.
C2_NotFoundReported ==
    (frPc = "done" /\ ~frCanceled /\ LookupExhausted) =>
        /\ frErr = ErrNotFound
        /\ frErr # ErrNil

\* C8: StreamUndoMatches called without any ForkedBlockRefs returns
\* InvalidArgument before the query is parsed, before any block is read and
\* before any match is sent.
C8_EmptyRefsRejected ==
    frRefs = <<>> =>
        /\ ~frParsed
        /\ frSrc = "idle"
        /\ frDelivered = <<>>
        /\ frSent = <<>>
        /\ frPc = "done" => frErr = ErrInvalidArgument

\* C8 witness: a request without refs has been answered
C8_Witness == frRefs = <<>> /\ frPc = "done" /\ frErr = ErrInvalidArgument

\* C9: the matches StreamUndoMatches sends are ordered by non-increasing
\* block number, and the matches of one block by decreasing transaction
\* index (the reverse of the ascending order of the single-index query).
C9_SentDescending ==
    \A i, j \in 1..Len(frSent) :
        i < j =>
          /\ frSent[i].BlockNum >= frSent[j].BlockNum
          /\ frSent[i].Cursor.BlockID = frSent[j].Cursor.BlockID
                => frSent[i].Index > frSent[j].Index

\* C9 witness: two matches of one block were sent, then a match of a block
\* with a smaller number, the blocks having been read in ascending order
C9_Witness ==
    /\ Len(frSent) >= 3
    /\ frSent[1].Cursor.BlockID = frSent[2].Cursor.BlockID
    /\ frSent[1].Index > frSent[2].Index
    /\ frSent[2].BlockNum > frSent[3].BlockNum
    /\ frOut[1].Number < frOut[2].Number

\* C10: every match sent has Undo = true, the number of a recovered forked
\* block as BlockNum, and a cursor made of that block's number and ID and of
\* the match's transaction ID prefix; matches are sent only for blocks whose
\* ID was requested.
C10_UndoMatchOfRequestedBlock ==
    \A k \in 1..Len(frSent) :
        /\ frSent[k].Undo = TRUE
        /\ \E i \in 1..Len(frDelivered) :
              /\ frDelivered[i].ID \in {frRefs[r].BlockID : r \in 1..Len(frRefs)}
              /\ frSent[k].BlockNum = frDelivered[i].Number
              /\ frSent[k].Cursor = [BlockNum |-> frDelivered[i].Number,
                                     BlockID |-> frDelivered[i].ID,
                                     TrxIDPrefix |-> frSent[k].TrxIdPrefix]

\* C10 witness: a match was sent although the source had also read a block
\* that was not requested
C10_Witness ==
    /\ frSent # <<>>
    /\ \E i \in 1..Len(frDelivered) :
          frDelivered[i].ID \notin {frRefs[r].BlockID : r \in 1..Len(frRefs)}

\* getBlocksDescending has returned
GetBlocksReturned == frBlocks.err # "none"

\* the IDs of the request
RequestedIDs == {frRefs[r].BlockID : r \in 1..Len(frRefs)}

\* the i-th block read lies beyond highest requested number + MaxLookupBlocks
ReadBeyond(i) == frDelivered[i].Number > boundaries(frRefs).highest + MaxLookupBlocks

\* the requested ID id was met before any block beyond the lookup window
MetInWindow(id) ==
    \E i \in 1..Len(frDelivered) :
        /\ frDelivered[i].ID = id
        /\ \A j \in 1..i : ~ReadBeyond(j)

\* the scan starts at the lowest requested number and ends with the first
\* block read beyond the lookup window
ScanInWindow ==
    \A i \in 1..Len(frDelivered) :
        /\ frDelivered[i].Number >= boundaries(frRefs).lowest
        /\ ReadBeyond(i) => i = Len(frDelivered)

\* a returned list holds each requested block exactly once, by decreasing
\* number; every other outcome is no block and a non-nil error
ListOrError ==
    IF frBlocks.err = ErrNil
    THEN /\ Len(frBlocks.blocks) = Cardinality(RequestedIDs)
         /\ \A id \in RequestedIDs :
               Cardinality({k \in 1..Len(frBlocks.blocks) : frBlocks.blocks[k].ID = id}) = 1
         /\ \A k \in 1..Len(frBlocks.blocks) :
               \E i \in 1..Len(frDelivered) : frDelivered[i] = frBlocks.blocks[k]
         /\ \A k, l \in 1..Len(frBlocks.blocks) :
               k < l => frBlocks.blocks[k].Number >= frBlocks.blocks[l].Number
    ELSE /\ frBlocks.blocks = <<>>
         /\ frBlocks.err \notin {ErrNil, "none"}

\* C28 as stated: getBlocksDescending scans from the lowest requested number,
\* matches by ID, stops at the first block beyond highest + MaxLookupBlocks,
\* and returns a block list exactly when every distinct requested ID was met
\* before that point; the list holds each requested block once by decreasing
\* number, every other outcome is no block and a non-nil error.
C28_ListIffAllMet ==
    GetBlocksReturned =>
        /\ ScanInWindow
        /\ (frBlocks.err = ErrNil) <=> (\A id \in RequestedIDs : MetInWindow(id))
        /\ ListOrError

\* C28 amended: as above, but a block list is returned exactly when every
\* distinct requested ID was met before that point and the call did not
\* return on the cancellation of its context first.
C28_ListIffAllMetNotCanceled ==
    GetBlocksReturned =>
        /\ ScanInWindow
        /\ (frBlocks.err = ErrNil) <=>
              /\ \A id \in RequestedIDs : MetInWindow(id)
              /\ frBlocks.err # ErrCanceled
        /\ ListOrError

\* C28 witness: two requested blocks were read in ascending order and
\* returned in descending order
C28_Witness ==
    /\ frBlocks.err = ErrNil
    /\ Len(frBlocks.blocks) = 2
    /\ frBlocks.blocks[1].Number > frBlocks.blocks[2].Number
    /\ frDelivered[1] = frBlocks.blocks[2]

\* getBlocksDescending returned on cancellation after every requested ID had
\* been met
C28_CanceledAfterAllMet ==
    /\ frBlocks.err = ErrCanceled
    /\ frComplete

\* getBlocksDescending returned the error of a source that ended before
\* every requested ID was met
C28_SourceErrorReturned ==
    /\ frBlocks.err \in {ErrNotFound, ErrMissingFiles}
    /\ frBlocks.blocks = <<>>

\* where StreamUndoMatches returned is consistent with what it returned
ExitOfCanceledCall ==
    /\ frExit = "ctxCheck" => frCanceled /\ frErr = ErrNil
    /\ frExit \in {"parseCanceled", "queryCanceled"} => frCanceled /\ frErr = ErrCanceled

C29_ParseCanceled == frExit = "parseCanceled"

\* the single-index query observed the cancellation
C29_QueryCanceled == frExit = "queryCanceled" /\ frSent # <<>>

\* C31: StreamUndoMatches sends no match unless every requested forked block
\* ID has been recovered: getBlocksDescending has returned all the blocks
\* before the first match is sent, and no block is read afterwards.
C31_AllBlocksBeforeFirstMatch ==
    /\ [](frSent # <<>> =>
            /\ GetBlocksReturned
            /\ frBlocks.err = ErrNil
            /\ \A id \in RequestedIDs : MetInWindow(id)
            /\ \A id \in RequestedIDs :
                  \E k \in 1..Len(frBlocks.blocks) : frBlocks.blocks[k].ID = id)
    /\ [][frSent # <<>> => frDelivered' = frDelivered /\ frBlocks' = frBlocks]_vars

\* C31 witness: two forked blocks were requested and a match has been sent
C31_Witness ==
    /\ Cardinality(RequestedIDs) = 2
    /\ Len(frBlocks.blocks) = 2
    /\ frSent # <<>>

\* a call that recovered only one of two requested blocks ended without a
\* match sent
C31_PartialRecovery ==
    /\ Cardinality(RequestedIDs) = 2
    /\ Len(frOut) = 1
    /\ frPc = "done"
    /\ frSent = <<>>

\* C36: in every match StreamUndoMatches sends, IrrBlockNum is the lowest
\* requested block number minus 1 and is strictly smaller than the BlockNum
\* of the match, also when block number 0 is requested (no unsigned
\* wrap-around).
C36_IrrBelowBlock ==
    \A k \in 1..Len(frSent) :
        /\ frSent[k].IrrBlockNum = boundaries(frRefs).lowest - 1
        /\ frSent[k].IrrBlockNum < frSent[k].BlockNum

\* the same for the requests whose lowest block number is above 0
C36_IrrBelowBlockAboveZero ==
    (frRefs # <<>> /\ boundaries(frRefs).lowest > 0) => C36_IrrBelowBlock

\* a match was sent for a request whose lowest block number is above 0
C36_AboveZeroReached ==
    /\ frSent # <<>>
    /\ boundaries(frRefs).lowest > 0
    /\ frSent[1].IrrBlockNum = boundaries(frRefs).lowest - 1

---------------------------------------------------------------------------
(* archive.ArchiveBackend.StreamMatches *)

\* a query produces at most MaxMatches matches
MaxMatches == 2

ErrUnsupported == "archive backend does not support this option"
ErrOutOfRange == "OUT_OF_RANGE"
ErrProto == "unable to obtain search match proto"

\* block numbers of the requested ranges and of the peer's pointers
RangeNums == {0, 1000000, 2000000}

\* the requests; QueryOK tells whether req.Query parses
BackendRequests ==
    [WithReversible : BOOLEAN, StopAtVirtualHead : BOOLEAN,
     LiveMarkerInterval : {0, 1}, NavigateFromBlockID : {"", "a"},
     NavigateFromBlockNum : {0, 1}, QueryOK : BOOLEAN,
     LowBlockNum : RangeNums, HighBlockNum : RangeNums]

ZeroRequest ==
    [WithReversible |-> FALSE, StopAtVirtualHead |-> FALSE,
     LiveMarkerInterval |-> 0, NavigateFromBlockID |-> "",
     NavigateFromBlockNum |-> 0, QueryOK |-> TRUE,
     LowBlockNum |-> 0, HighBlockNum |-> 0]

\* the pointers a peer publishes: tail <= irr + 1 and irr <= head
PeerPointers ==
    {p \in [tail : RangeNums, irr : RangeNums, head : RangeNums] :
        p.tail <= p.irr + 1 /\ p.irr <= p.head}

UnsupportedOptionNoNavigateNum(req) ==
    \/ req.WithReversible
    \/ req.StopAtVirtualHead
    \/ req.LiveMarkerInterval # 0
    \/ req.NavigateFromBlockID # ""

\* the five checks at the head of StreamMatches
UnsupportedOption(req) ==
    \/ req.WithReversible
    \/ req.StopAtVirtualHead
    \/ req.LiveMarkerInterval # 0
    \/ req.NavigateFromBlockID # ""
    \/ req.NavigateFromBlockNum # 0

HeadBlockPointersHead(peer) == [first |-> peer.tail, irr |-> peer.head]

\* first, _, irr, _, _, _ := b.searchPeer.HeadBlockPointers()
HeadBlockPointers(peer) == [first |-> peer.tail, irr |-> peer.irr]

\* archiveQuery.checkBoundaries: lowBlock >= peer.tail and highBlock <= peer.irr
checkBoundaries(low, high, first, irr) ==
    IF low < first \/ high > irr THEN ErrOutOfRange ELSE ErrNil

\* "return err": the deferred stream.SetTrailer(trailer) runs when it was
\* installed before the return
SM_Return(err, installed, trailer, exit) ==
    /\ smErr' = err
    /\ smExit' = exit
    /\ smPc' = "done"
    /\ smStreamTrailer' = IF installed THEN Append(smStreamTrailer, trailer)
                          ELSE smStreamTrailer

smUnchangedRun == UNCHANGED <<smRun, smResults, smErrors, smEmitted, smLastBlockRead>>

\* the client cancels the stream context
SM_Cancel ==
    /\ smPc # "done"
    /\ ~smCanceled
    /\ smCanceled' = TRUE
    /\ UNCHANGED <<smReq, smPeer, smPc, smParsed, smInstalled, smTrailer,
                   smStreamTrailer, smSent, smErr, smExit>>
    /\ smUnchangedRun

\* lines 184-198
SM_CheckOptions ==
    /\ smPc = "options"
    /\ IF UnsupportedOption(smReq)
       THEN SM_Return(ErrUnsupported, FALSE, 0, "options")
       ELSE smPc' = "parse" /\ UNCHANGED <<smErr, smExit, smStreamTrailer>>
    /\ UNCHANGED <<smReq, smPeer, smCanceled, smParsed, smInstalled, smTrailer, smSent>>
    /\ smUnchangedRun

\* lines 203-206
SM_ParseQuery ==
    /\ smPc = "parse"
    /\ smParsed' = TRUE
    /\ IF ~smReq.QueryOK
       THEN SM_Return(ErrParse, FALSE, 0, "parse")
       ELSE smPc' = "bounds" /\ UNCHANGED <<smErr, smExit, smStreamTrailer>>
    /\ UNCHANGED <<smReq, smPeer, smCanceled, smInstalled, smTrailer, smSent>>
    /\ smUnchangedRun

\* lines 214-227: the trailer is created with -1 and its SetTrailer deferred,
\* the range is checked against the peer, the run goroutine is started
SM_CheckBoundaries ==
    /\ smPc = "bounds"
    /\ smInstalled' = TRUE
    /\ smTrailer' = -1
    /\ LET p == HeadBlockPointers(smPeer)
           err == checkBoundaries(smReq.LowBlockNum, smReq.HighBlockNum, p.first, p.irr)
       IN IF err # ErrNil
          THEN SM_Return(err, TRUE, -1, "bounds") /\ UNCHANGED smRun
          ELSE /\ smRun' = "running"
               /\ smPc' = "loop"
               /\ UNCHANGED <<smErr, smExit, smStreamTrailer>>
    /\ UNCHANGED <<smReq, smPeer, smCanceled, smParsed, smSent,
                   smResults, smErrors, smEmitted, smLastBlockRead>>

smUnchangedHandler ==
    UNCHANGED <<smReq, smPeer, smPc, smCanceled, smParsed, smInstalled, smTrailer,
                smStreamTrailer, smSent, smErr, smExit>>

\* archiveQuery.run puts a match on Results
RUN_Emit ==
    /\ smPc = "loop"
    /\ smRun = "running"
    /\ Len(smEmitted) < MaxMatches
    /\ \E b \in {smReq.LowBlockNum, smReq.HighBlockNum} :
          LET m == [n |-> Len(smEmitted) + 1, BlockNum |-> b]
          IN /\ smResults' = Append(smResults, m)
             /\ smEmitted' = Append(smEmitted, m)
             /\ smLastBlockRead' = b
    /\ UNCHANGED <<smRun, smErrors>>
    /\ smUnchangedHandler

\* archiveQuery.run puts a value on Errors and stops searching
RUN_Fail ==
    /\ smPc = "loop"
    /\ smRun = "running"
    /\ \E e \in {ErrQuery, ErrNil} : smErrors' = Append(smErrors, e)
    /\ smRun' = "failed"
    /\ UNCHANGED <<smResults, smEmitted, smLastBlockRead>>
    /\ smUnchangedHandler

\* archiveQuery.run closes Results
RUN_Close ==
    /\ smPc = "loop"
    /\ smRun \in {"running", "failed"}
    /\ smRun' = "closed"
    /\ UNCHANGED <<smResults, smErrors, smEmitted, smLastBlockRead>>
    /\ smUnchangedHandler

\* lines 231-240: case err := <-archiveQuery.Errors
SM_RecvError ==
    /\ smPc = "loop"
    /\ smErrors # <<>>
    /\ smErrors' = Tail(smErrors)
    /\ LET err == Head(smErrors)
       IN IF err # ErrNil /\ ~smCanceled
          THEN SM_Return(err, smInstalled, smTrailer, "error")
          ELSE IF err # ErrNil
          THEN SM_Return(ErrNil, smInstalled, smTrailer, "canceled")
          ELSE SM_Return(ErrNil, smInstalled, smTrailer, "nil")
    /\ UNCHANGED <<smReq, smPeer, smCanceled, smParsed, smInstalled, smTrailer, smSent,
                   smRun, smResults, smEmitted, smLastBlockRead>>

\* a receive that takes the newest match of Results instead of the oldest
SM_RecvMatchNewest ==
    /\ smPc = "loop"
    /\ smResults # <<>>
    /\ smResults' = SubSeq(smResults, 1, Len(smResults) - 1)
    /\ \E protoOK \in BOOLEAN, sendOK \in BOOLEAN :
          IF ~protoOK
          THEN SM_Return(ErrProto, smInstalled, smTrailer, "proto") /\ UNCHANGED smSent
          ELSE IF ~sendOK
          THEN SM_Return(ErrSend, smInstalled, smTrailer, "send") /\ UNCHANGED smSent
          ELSE /\ smSent' = Append(smSent, smResults[Len(smResults)])
               /\ UNCHANGED <<smPc, smErr, smExit, smStreamTrailer>>
    /\ UNCHANGED <<smReq, smPeer, smCanceled, smParsed, smInstalled, smTrailer,
                   smRun, smErrors, smEmitted, smLastBlockRead>>

\* lines 242-260: case match, ok := <-archiveQuery.Results with ok true
SM_RecvMatch ==
    /\ smPc = "loop"
    /\ smResults # <<>>
    /\ smResults' = Tail(smResults)
    /\ \E protoOK \in BOOLEAN, sendOK \in BOOLEAN :
          IF ~protoOK
          THEN SM_Return(ErrProto, smInstalled, smTrailer, "proto") /\ UNCHANGED smSent
          ELSE IF ~sendOK
          THEN SM_Return(ErrSend, smInstalled, smTrailer, "send") /\ UNCHANGED smSent
          ELSE /\ smSent' = Append(smSent, Head(smResults))
               /\ UNCHANGED <<smPc, smErr, smExit, smStreamTrailer>>
    /\ UNCHANGED <<smReq, smPeer, smCanceled, smParsed, smInstalled, smTrailer,
                   smRun, smErrors, smEmitted, smLastBlockRead>>

SM_RecvClosedTrailerKept ==
    /\ smPc = "loop"
    /\ smResults = <<>>
    /\ smRun = "closed"
    /\ smTrailer' = smTrailer
    /\ SM_Return(ErrNil, smInstalled, smTrailer, "closed")
    /\ UNCHANGED <<smReq, smPeer, smCanceled, smParsed, smInstalled, smSent>>
    /\ smUnchangedRun

\* lines 243-246: Results is closed and drained
SM_RecvClosed ==
    /\ smPc = "loop"
    /\ smResults = <<>>
    /\ smRun = "closed"
    /\ smTrailer' = smLastBlockRead
    /\ SM_Return(ErrNil, smInstalled, smLastBlockRead, "closed")
    /\ UNCHANGED <<smReq, smPeer, smCanceled, smParsed, smInstalled, smSent>>
    /\ smUnchangedRun

NextStream ==
    \/ SM_Cancel /\ UNCHANGED othersStream
    \/ SM_CheckOptions /\ UNCHANGED othersStream
    \/ SM_ParseQuery /\ UNCHANGED othersStream
    \/ SM_CheckBoundaries /\ UNCHANGED othersStream
    \/ RUN_Emit /\ UNCHANGED othersStream
    \/ RUN_Fail /\ UNCHANGED othersStream
    \/ RUN_Close /\ UNCHANGED othersStream
    \/ SM_RecvError /\ UNCHANGED othersStream
    \/ SM_RecvMatch /\ UNCHANGED othersStream
    \/ SM_RecvClosed /\ UNCHANGED othersStream

\* StreamMatches returned an error
SM_Failed == smPc = "done" /\ smErr # ErrNil

\* C11: every request with WithReversible, StopAtVirtualHead, a non-zero
\* LiveMarkerInterval, a non-empty NavigateFromBlockID or a non-zero
\* NavigateFromBlockNum is rejected with an error before the query is parsed,
\* the search is run or a match is sent.
C11_UnsupportedRejected ==
    (smReq.WithReversible \/ smReq.StopAtVirtualHead \/ smReq.LiveMarkerInterval # 0
        \/ smReq.NavigateFromBlockID # "" \/ smReq.NavigateFromBlockNum # 0)
    => /\ ~smParsed
       /\ smRun = "idle"
       /\ smSent = <<>>
       /\ smPc \in {"options", "done"}
       /\ smPc = "done" => smErr = ErrUnsupported

C11_Witness ==
    /\ smPc = "done"
    /\ smErr = ErrUnsupported
    /\ smReq.NavigateFromBlockNum # 0
    /\ ~smReq.WithReversible /\ ~smReq.StopAtVirtualHead
    /\ smReq.LiveMarkerInterval = 0 /\ smReq.NavigateFromBlockID = ""

\* C12: every StreamMatches call that has returned has set the
\* 'last-block-read' trailer on the stream, and the trailer is -1 when the call
\* returned an error.
C12_TrailerAlwaysSet ==
    smPc = "done" =>
        /\ Len(smStreamTrailer) = 1
        /\ smErr # ErrNil => smStreamTrailer[1] = -1

\* the requested range is outside what the peer serves
OutOfPeerRange == smReq.LowBlockNum < smPeer.tail \/ smReq.HighBlockNum > smPeer.irr

\* C13: a request that reaches the boundary check with a range outside the
\* peer's [tail, irr] returns the out-of-range error; the run goroutine is
\* never started and no match is sent.
C13_OutOfRangeRejected ==
    (OutOfPeerRange /\ smInstalled) =>
        /\ smPc = "done"
        /\ smErr = ErrOutOfRange
        /\ smRun = "idle"
        /\ smEmitted = <<>>
        /\ smSent = <<>>

C13_Witness ==
    /\ smPeer.tail = 0 /\ smPeer.irr = 1000000
    /\ smReq.LowBlockNum = 2000000
    /\ smPc = "done"
    /\ smErr = ErrOutOfRange

\* C23: a stream whose trailer was installed ends with the last-block-read
\* trailer at the query's LastBlockRead when it returned because Results was
\* closed, and at -1 when it returned for any other reason: the boundary
\* check, an error or a nil value from Errors, a canceled context, a failed
\* conversion or a failed Send
C23_TrailerOnlyOnClose ==
    (smPc = "done" /\ smInstalled) =>
        /\ smExit \in {"bounds", "error", "nil", "canceled", "proto", "send", "closed"}
        /\ smExit = "closed" => smStreamTrailer = <<smLastBlockRead>>
        /\ smExit # "closed" => smStreamTrailer = <<-1>>

\* C23 witness: the query read up to a block above 0, Results was closed and
\* the stream returned with that block number in its trailer
C23_Witness ==
    /\ smPc = "done" /\ smExit = "closed"
    /\ smLastBlockRead > 0
    /\ smSent # <<>>
    /\ smStreamTrailer = <<smLastBlockRead>>

\* a stream that was canceled after the query had read a block, and returned
\* nil on the error that followed
C23_CanceledReached ==
    /\ smPc = "done" /\ smExit = "canceled"
    /\ smLastBlockRead > 0
    /\ smStreamTrailer = <<-1>>

\* a value has been taken from the Errors channel
ErrorTaken == smExit \in {"error", "canceled", "nil"}

\* C35: the matches StreamMatches sends are a prefix of the matches put on
\* the Results channel, in the same order, each sent at most once, under
\* every interleaving of Results and Errors; nothing is sent after a value
\* was taken from the Errors channel.
C35_SentPrefixOfResults ==
    /\ [](/\ Len(smSent) <= Len(smEmitted)
          /\ \A i \in 1..Len(smSent) : smSent[i] = smEmitted[i]
          /\ \A i, j \in 1..Len(smSent) : i # j => smSent[i] # smSent[j])
    /\ [][ErrorTaken => smSent' = smSent]_vars

\* C35 witness: two matches were put on Results, the first was sent, then
\* the error of the query was taken before the second match
C35_Witness ==
    /\ Len(smEmitted) = 2
    /\ smSent = <<smEmitted[1]>>
    /\ smResults = <<smEmitted[2]>>
    /\ smExit = "error"

\* both matches were sent although an error was waiting on Errors
C35_SentBeforeError ==
    /\ Len(smSent) = 2
    /\ smErrors # <<>>
    /\ smPc = "loop"

---------------------------------------------------------------------------
(* The searchPeer record of a service process *)

\* dmesh.NewSearchArchivePeer / NewSearchForkResolverPeer: not ready, no pointers
NewSearchPeer ==
    [Ready |-> FALSE, TailBlock |-> 0, IrrBlock |-> 0, IrrBlockID |-> "",
     HeadBlock |-> 0, HeadBlockID |-> ""]

\* the writes to the given fields, outside any critical section
LockedNoMutex(by, fields) ==
    [i \in 1..Len(fields) |-> [by |-> by, op |-> "write", arg |-> fields[i]]]

\* searchPeer.Locked(func() { ... }): the writes to the given fields, inside
\* the critical section of the peer
Locked(by, fields) ==
    <<[by |-> by, op |-> "lock", arg |-> ""]>>
    \o [i \in 1..Len(fields) |-> [by |-> by, op |-> "write", arg |-> fields[i]]]
    \o <<[by |-> by, op |-> "unlock", arg |-> ""]>>

\* dmeshClient.PublishNow(searchPeer), which succeeds or fails
PublishNow(by, ok) ==
    <<[by |-> by, op |-> "publish", arg |-> IF ok THEN "ok" ELSE "err"]>>

---------------------------------------------------------------------------
(* archive App.Run *)

ErrPublish == "publishing peer to dmesh"
ErrStore == "failed setting up indexes store"
ErrClean == "cleaning on-disk indexes"
ErrSync == "syncing from storage"
ErrScan == "opening read-only indexes"
ErrLowest == "setting lowest serveable block num"
ErrWarmup == "unable to warmup search"
ErrSetReady == "setting ready"
ErrProbe == "cannot create readiness probe"
\* derr.Check or a nil dereference ends the process
Fatal == "fatal"

\* the configurations: Warmup stands for WarmupFilepath != ""
ArchiveConfigs ==
    [StartBlock : {-2, 0, 2, 3}, ShardSize : {2}, EnableMovingTail : BOOLEAN,
     SyncFromStore : BOOLEAN, Warmup : BOOLEAN, EnableReadinessProbe : BOOLEAN]

ZeroConfig ==
    [StartBlock |-> 0, ShardSize |-> 2, EnableMovingTail |-> FALSE,
     SyncFromStore |-> FALSE, Warmup |-> FALSE, EnableReadinessProbe |-> FALSE]

\* the highest irreversible block the mesh reports
MeshIrrNums == {0, 1, 2, 5}

RunAfterNoLowest(pc, cfg) ==
    CASE pc = "clean" -> IF cfg.SyncFromStore THEN "sync" ELSE "scan"
      [] pc = "sync" -> "scan"
      [] pc = "scan" -> "pointers"
      [] pc = "lowest" -> "pointers"
      [] pc = "pointers" -> "publishPointers"
      [] pc = "publishPointers" -> "backend"
      [] pc = "backend" -> IF cfg.Warmup THEN "warmup" ELSE "setready"
      [] pc = "warmup" -> "setready"
      [] pc = "setready" -> IF cfg.EnableReadinessProbe THEN "probe" ELSE "register"
      [] pc = "probe" -> "register"
      [] pc = "register" -> "launch"
      [] OTHER -> "done"

\* the statement App.Run executes after the one at pc succeeded (lines 130-221)
RunAfter(pc, cfg) ==
    CASE pc = "clean" -> IF cfg.SyncFromStore THEN "sync" ELSE "scan"
      [] pc = "sync" -> "scan"
      [] pc = "scan" -> "lowest"
      [] pc = "lowest" -> "pointers"
      [] pc = "pointers" -> "publishPointers"
      [] pc = "publishPointers" -> "backend"
      [] pc = "backend" -> IF cfg.Warmup THEN "warmup" ELSE "setready"
      [] pc = "warmup" -> "setready"
      [] pc = "setready" -> IF cfg.EnableReadinessProbe THEN "probe" ELSE "register"
      [] pc = "probe" -> "register"
      [] pc = "register" -> "launch"
      [] OTHER -> "done"

aaData == <<aaCfg, aaIrr, aaResolved, aaPoolErr, aaLast>>
abData == <<abPc, abRegistered, abHasPeer, abHTTP, abShuttingDown, abClosed>>
shutData == <<aaShut, aaOnTerm, abShut, stPc>>
fsData == <<fsPc, fsShut, fsServing, fsShutdowns>>

\* "return fmt.Errorf(...)"
AA_Return(err) == aaPc' = "done" /\ aaRet' = err

\* line 93: the peer is published as created
AA_PublishPeer ==
    /\ svKind = "archive" /\ aaPc = "publish"
    /\ \E ok \in BOOLEAN :
          /\ peOps' = peOps \o PublishNow("app", ok)
          /\ IF ok THEN aaPc' = "resolve" /\ UNCHANGED aaRet ELSE AA_Return(ErrPublish)
    /\ UNCHANGED <<svKind, svTrace, pePeer, aaData, abData, shutData, fsData>>

\* lines 98-102
AA_Resolve ==
    /\ svKind = "archive" /\ aaPc = "resolve"
    /\ LET r == resolveStartBlock(aaCfg.StartBlock, aaCfg.ShardSize, aaIrr)
       IN IF r.err # ErrNil
          THEN AA_Return(r.err) /\ UNCHANGED aaResolved
          ELSE aaResolved' = r.val /\ aaPc' = "blockcount" /\ UNCHANGED aaRet
    /\ UNCHANGED <<svKind, svTrace, pePeer, peOps, aaCfg, aaIrr, aaPoolErr, aaLast,
                   abData, shutData, fsData>>

\* lines 109-113: getBlockCount fails on a start block >= 0; derr.Check ends
\* the process
AA_BlockCount ==
    /\ svKind = "archive" /\ aaPc = "blockcount"
    /\ IF aaCfg.EnableMovingTail /\ aaCfg.StartBlock >= 0
       THEN AA_Return(Fatal)
       ELSE aaPc' = "store" /\ UNCHANGED aaRet
    /\ UNCHANGED <<svKind, svTrace, pePeer, peOps, aaData, abData, shutData, fsData>>

\* lines 115-118
AA_NewStore ==
    /\ svKind = "archive" /\ aaPc = "store"
    /\ \E ok \in BOOLEAN :
          IF ok THEN aaPc' = "pool" /\ UNCHANGED aaRet ELSE AA_Return(ErrStore)
    /\ UNCHANGED <<svKind, svTrace, pePeer, peOps, aaData, abData, shutData, fsData>>

\* lines 121-128: the error of NewIndexPool is assigned and never read
AA_NewIndexPool ==
    /\ svKind = "archive" /\ aaPc = "pool"
    /\ aaPoolErr' \in BOOLEAN
    /\ aaPc' = "clean"
    /\ UNCHANGED <<svKind, svTrace, pePeer, peOps, aaCfg, aaIrr, aaResolved, aaLast,
                   aaRet, abData, shutData, fsData>>

\* a call on the index pool that returns an error or nil; Run returns the
\* error, or goes on with the next statement
AA_PoolCall(step, err) ==
    /\ svKind = "archive" /\ aaPc = step
    /\ \E ok \in BOOLEAN :
          /\ svTrace' = Append(svTrace, [step |-> step, ok |-> ok])
          /\ IF ok THEN aaPc' = RunAfter(step, aaCfg) /\ UNCHANGED aaRet
             ELSE AA_Return(err)
    /\ UNCHANGED <<svKind, pePeer, peOps, aaCfg, aaIrr, aaResolved, aaPoolErr,
                   abData, shutData, fsData>>

\* line 131; on a pool that NewIndexPool failed to create the call may also
\* end the process
AA_Clean ==
    \/ AA_PoolCall("clean", ErrClean) /\ UNCHANGED aaLast
    \/ /\ svKind = "archive" /\ aaPc = "clean" /\ aaPoolErr
       /\ AA_Return(Fatal)
       /\ UNCHANGED <<svKind, svTrace, pePeer, peOps, aaData, abData, shutData, fsData>>

\* lines 136-142
AA_Sync == AA_PoolCall("sync", ErrSync) /\ UNCHANGED aaLast

\* lines 145-148: the scan finds no read-only index, or indexes up to the end
\* of a shard
AA_Scan ==
    /\ AA_PoolCall("scan", ErrScan)
    /\ aaLast' \in {[num |-> 0, id |-> ""],
                    [num |-> ToUint64(aaResolved + aaCfg.ShardSize - 1), id |-> "a"]}

\* lines 150-153
AA_SetLowest == AA_PoolCall("lowest", ErrLowest) /\ UNCHANGED aaLast

\* lines 155-170
AA_Pointers ==
    /\ svKind = "archive" /\ aaPc = "pointers"
    /\ LET lastIrrBlockNum ==
               IF aaLast.num = 0 /\ aaCfg.StartBlock # 0
               THEN ToUint64(aaResolved - 1) ELSE aaLast.num
       IN pePeer' = [pePeer EXCEPT !.IrrBlock = lastIrrBlockNum,
                                   !.IrrBlockID = aaLast.id,
                                   !.HeadBlock = lastIrrBlockNum,
                                   !.HeadBlockID = aaLast.id,
                                   !.TailBlock = aaResolved]
    /\ peOps' = peOps \o Locked("app", <<"IrrBlock", "IrrBlockID", "HeadBlock",
                                         "HeadBlockID", "TailBlock">>)
    /\ svTrace' = Append(svTrace, [step |-> "pointers", ok |-> TRUE])
    /\ aaPc' = RunAfter("pointers", aaCfg)
    /\ UNCHANGED <<svKind, aaData, aaRet, abData, shutData, fsData>>

\* lines 171-174
AA_PublishPointers ==
    /\ svKind = "archive" /\ aaPc = "publishPointers"
    /\ \E ok \in BOOLEAN :
          /\ peOps' = peOps \o PublishNow("app", ok)
          /\ svTrace' = Append(svTrace, [step |-> "publishPointers", ok |-> ok])
          /\ IF ok THEN aaPc' = RunAfter("publishPointers", aaCfg) /\ UNCHANGED aaRet
             ELSE AA_Return(ErrPublish)
    /\ UNCHANGED <<svKind, pePeer, aaData, abData, shutData, fsData>>

\* lines 176-187: the truncator, the polling and the backend are set up
AA_NewBackend ==
    /\ svKind = "archive" /\ aaPc = "backend"
    /\ svTrace' = Append(svTrace, [step |-> "backend", ok |-> TRUE])
    /\ aaPc' = RunAfter("backend", aaCfg)
    /\ UNCHANGED <<svKind, pePeer, peOps, aaData, aaRet, abData, shutData, fsData>>

\* lines 189-194
AA_Warmup == AA_PoolCall("warmup", ErrWarmup) /\ UNCHANGED aaLast

\* lines 196-199: IndexPool.SetReady marks the peer ready and publishes it
AA_SetReady ==
    /\ svKind = "archive" /\ aaPc = "setready"
    /\ pePeer' = [pePeer EXCEPT !.Ready = TRUE]
    /\ \E ok \in BOOLEAN :
          /\ peOps' = peOps \o Locked("pool", <<"Ready">>) \o PublishNow("pool", ok)
          /\ svTrace' = Append(svTrace, [step |-> "setready", ok |-> ok])
          /\ IF ok THEN aaPc' = RunAfter("setready", aaCfg) /\ UNCHANGED aaRet
             ELSE AA_Return(ErrSetReady)
    /\ UNCHANGED <<svKind, aaData, abData, shutData, fsData>>

\* lines 201-207
AA_Probe ==
    /\ svKind = "archive" /\ aaPc = "probe"
    /\ \E ok \in BOOLEAN :
          IF ok THEN aaPc' = RunAfter("probe", aaCfg) /\ UNCHANGED aaRet
          ELSE AA_Return(ErrProbe)
    /\ UNCHANGED <<svKind, svTrace, pePeer, peOps, aaData, abData, shutData, fsData>>

\* lines 209-218: a callback registered on a shutter that is already down is
\* never called
AA_Register ==
    /\ svKind = "archive" /\ aaPc = "register"
    /\ aaOnTerm' = TRUE
    /\ aaPc' = RunAfter("register", aaCfg)
    /\ UNCHANGED <<svKind, svTrace, pePeer, peOps, aaData, aaRet, abData,
                   aaShut, abShut, stPc, fsData>>

\* lines 220-223: go archiveBackend.Launch(); return nil
AA_GoLaunch ==
    /\ svKind = "archive" /\ aaPc = "launch"
    /\ abPc' = "register"
    /\ svTrace' = Append(svTrace, [step |-> "launch", ok |-> TRUE])
    /\ AA_Return(ErrNil)
    /\ UNCHANGED <<svKind, pePeer, peOps, aaData, abRegistered, abHasPeer, abHTTP,
                   abShuttingDown, abClosed, shutData, fsData>>

---------------------------------------------------------------------------
(* archive.ArchiveBackend.Launch and stop *)

ErrListen == "failed listening grpc"
ErrServe == "error on gs.Serve"

StopAfterNoPublish(step, hasPeer) ==
    CASE step = "notready" -> "sleep"
      [] step = "publish" -> "sleep"
      [] step = "sleep" -> "http"
      [] step = "http" -> "close"
      [] OTHER -> "done"

\* the statement stop executes after the one at step (lines 297-316)
StopAfter(step, hasPeer) ==
    CASE step = "notready" -> IF hasPeer THEN "publish" ELSE "sleep"
      [] step = "publish" -> "sleep"
      [] step = "sleep" -> "http"
      [] step = "http" -> "close"
      [] OTHER -> "done"

\* b.Shutdown(err): the first call closes the terminating channel and calls
\* the OnTerminating callbacks registered at that time (stop, once Launch has
\* registered it); without a callback the shutter is terminated at once
BackendShutdown ==
    IF abShut # "up" THEN UNCHANGED <<abShut, stPc>>
    ELSE IF abRegistered THEN abShut' = "terminating" /\ stPc' = "notready"
    ELSE abShut' = "terminated" /\ UNCHANGED stPc

\* a.Shutdown(err) of the archive app, from the process's signal handler
APP_Shutdown ==
    /\ svKind = "archive" /\ aaShut = "up"
    /\ aaShut' = "down"
    /\ IF aaOnTerm THEN BackendShutdown ELSE UNCHANGED <<abShut, stPc>>
    /\ UNCHANGED <<svKind, svTrace, pePeer, peOps, aaData, aaPc, aaRet, aaOnTerm,
                   abData, fsData>>

\* Launch, lines 266-269
AB_Register ==
    /\ svKind = "archive" /\ abPc = "register"
    /\ abRegistered' = TRUE
    /\ abPc' = "startServer"
    /\ UNCHANGED <<svKind, svTrace, pePeer, peOps, aaData, aaPc, aaRet, shutData,
                   abHasPeer, abHTTP, abShuttingDown, abClosed, fsData>>

\* Launch, line 271: startServer sets b.httpServer; a failure to listen for
\* gRPC shuts the backend down
AB_StartServer ==
    /\ svKind = "archive" /\ abPc = "startServer"
    /\ abHTTP' = IF abHTTP = "nil" THEN "serving" ELSE abHTTP
    /\ abPc' = "wait"
    /\ \E ok \in BOOLEAN : IF ok THEN UNCHANGED <<abShut, stPc>> ELSE BackendShutdown
    /\ UNCHANGED <<svKind, svTrace, pePeer, peOps, aaData, aaPc, aaRet, aaShut, aaOnTerm,
                   abRegistered, abHasPeer, abShuttingDown, abClosed, fsData>>

\* the goroutines of startServer: ListenAndServe or Serve returns an error
AB_ServeFail ==
    /\ svKind = "archive" /\ abPc \in {"wait", "returned"} /\ abShut = "up"
    /\ BackendShutdown
    /\ UNCHANGED <<svKind, svTrace, pePeer, peOps, aaData, aaPc, aaRet, aaShut, aaOnTerm,
                   abData, fsData>>

\* Launch, lines 273-279
AB_Terminating ==
    /\ svKind = "archive" /\ abPc = "wait" /\ abShut # "up"
    /\ abPc' = "returned"
    /\ UNCHANGED <<svKind, svTrace, pePeer, peOps, aaData, aaPc, aaRet, shutData,
                   abRegistered, abHasPeer, abHTTP, abShuttingDown, abClosed, fsData>>

\* stop, lines 297-300
ST_NotReady ==
    /\ stPc = "notready"
    /\ IF abHasPeer
       THEN /\ pePeer' = [pePeer EXCEPT !.Ready = FALSE]
            /\ peOps' = peOps \o Locked("backend", <<"Ready">>)
            /\ svTrace' = Append(svTrace, [step |-> "notready", ok |-> TRUE])
       ELSE UNCHANGED <<pePeer, peOps, svTrace>>
    /\ stPc' = StopAfter("notready", abHasPeer)
    /\ UNCHANGED <<svKind, aaData, aaPc, aaRet, aaShut, aaOnTerm, abShut, abData, fsData>>

\* stop, lines 301-304: a failed publication is logged
ST_Publish ==
    /\ stPc = "publish"
    /\ \E ok \in BOOLEAN :
          /\ peOps' = peOps \o PublishNow("backend", ok)
          /\ svTrace' = Append(svTrace, [step |-> "publishNotReady", ok |-> ok])
    /\ stPc' = StopAfter("publish", abHasPeer)
    /\ UNCHANGED <<svKind, pePeer, aaData, aaPc, aaRet, aaShut, aaOnTerm, abShut, abData,
                   fsData>>

\* stop, lines 307-308
ST_Sleep ==
    /\ stPc = "sleep"
    /\ abShuttingDown' = TRUE
    /\ svTrace' = Append(svTrace, [step |-> "sleep", ok |-> TRUE])
    /\ stPc' = StopAfter("sleep", abHasPeer)
    /\ UNCHANGED <<svKind, pePeer, peOps, aaData, aaPc, aaRet, aaShut, aaOnTerm, abShut,
                   abPc, abRegistered, abHasPeer, abHTTP, abClosed, fsData>>

\* stop, lines 310-313, and shutdownHTTPServer: the error is logged
ST_HTTP ==
    /\ stPc = "http"
    /\ \E ok \in BOOLEAN :
          /\ svTrace' = Append(svTrace, [step |-> "http", ok |-> ok \/ abHTTP = "nil"])
          /\ abHTTP' = IF abHTTP = "serving" /\ ok THEN "shutdown" ELSE abHTTP
    /\ stPc' = StopAfter("http", abHasPeer)
    /\ UNCHANGED <<svKind, pePeer, peOps, aaData, aaPc, aaRet, aaShut, aaOnTerm, abShut,
                   abPc, abRegistered, abHasPeer, abShuttingDown, abClosed, fsData>>

\* stop, lines 315-319; the callback has returned: the shutter is terminated
\* and its OnTerminated callback shuts the app down
ST_Close ==
    /\ stPc = "close"
    /\ \E ok \in BOOLEAN : svTrace' = Append(svTrace, [step |-> "close", ok |-> ok])
    /\ abClosed' = TRUE
    /\ stPc' = StopAfter("close", abHasPeer)
    /\ abShut' = "terminated"
    /\ aaShut' = "down"
    /\ UNCHANGED <<svKind, pePeer, peOps, aaData, aaPc, aaRet, aaOnTerm,
                   abPc, abRegistered, abHasPeer, abHTTP, abShuttingDown, fsData>>

---------------------------------------------------------------------------
(* forkresolver.ForkResolver.Launch and startGrpcServer *)

fsOthers == <<svKind, svTrace, aaData, aaPc, aaRet, abData, shutData>>

\* f.Shutter.Shutdown(err): the first call sets the error of the shutter
FS_ShutterShutdown(err) ==
    /\ fsShut' = IF fsShut = "up" THEN err ELSE fsShut
    /\ fsShutdowns' = Append(fsShutdowns, err)

\* a startGrpcServer that goes on after a failed net.Listen
FS_ListenNoReturn ==
    /\ svKind = "forkresolver" /\ fsPc = "listen"
    /\ \E ok \in BOOLEAN :
          IF ok THEN fsPc' = "ready" /\ UNCHANGED <<fsShut, fsShutdowns>>
          ELSE /\ fsPc' = "ready"
               /\ FS_ShutterShutdown(ErrListen)
    /\ UNCHANGED <<pePeer, peOps, fsServing, fsOthers>>

\* lines 565-574
FS_Listen ==
    /\ svKind = "forkresolver" /\ fsPc = "listen"
    /\ \E ok \in BOOLEAN :
          IF ok THEN fsPc' = "ready" /\ UNCHANGED <<fsShut, fsShutdowns>>
          ELSE /\ fsPc' = "wait"
               /\ FS_ShutterShutdown(ErrListen)
    /\ UNCHANGED <<pePeer, peOps, fsServing, fsOthers>>

\* lines 576-579
FS_Ready ==
    /\ svKind = "forkresolver" /\ fsPc = "ready"
    /\ pePeer' = [pePeer EXCEPT !.Ready = TRUE]
    /\ peOps' = peOps \o Locked("forkresolver", <<"Ready">>)
    /\ fsPc' = "publish"
    /\ UNCHANGED <<fsShut, fsServing, fsShutdowns, fsOthers>>

\* lines 581-585
FS_Publish ==
    /\ svKind = "forkresolver" /\ fsPc = "publish"
    /\ \E ok \in BOOLEAN :
          /\ peOps' = peOps \o PublishNow("forkresolver", ok)
          /\ IF ok THEN fsPc' = "serve" /\ UNCHANGED <<fsShut, fsShutdowns>>
             ELSE /\ fsPc' = "wait"
                  /\ FS_ShutterShutdown(ErrPublish)
    /\ UNCHANGED <<pePeer, fsServing, fsOthers>>

\* lines 587-592: the goroutine of s.Serve(lis) is started
FS_Serve ==
    /\ svKind = "forkresolver" /\ fsPc = "serve"
    /\ fsServing' = TRUE
    /\ fsPc' = "wait"
    /\ UNCHANGED <<pePeer, peOps, fsShut, fsShutdowns, fsOthers>>

\* lines 589-591: s.Serve returns an error
FS_ServeFail ==
    /\ svKind = "forkresolver" /\ fsServing /\ fsShut = "up"
    /\ FS_ShutterShutdown(ErrServe)
    /\ UNCHANGED <<pePeer, peOps, fsPc, fsServing, fsOthers>>

\* fr.Shutdown, the OnTerminating callback of the fork resolver app
FS_Shutdown ==
    /\ svKind = "forkresolver" /\ fsShut = "up"
    /\ FS_ShutterShutdown(ErrNil)
    /\ UNCHANGED <<pePeer, peOps, fsPc, fsServing, fsOthers>>

\* Launch, lines 600-607
FS_Terminating ==
    /\ svKind = "forkresolver" /\ fsPc = "wait" /\ fsShut # "up"
    /\ fsPc' = "returned"
    /\ UNCHANGED <<pePeer, peOps, fsShut, fsServing, fsShutdowns, fsOthers>>

NextService ==
    \/ AA_PublishPeer /\ UNCHANGED othersService
    \/ AA_Resolve /\ UNCHANGED othersService
    \/ AA_BlockCount /\ UNCHANGED othersService
    \/ AA_NewStore /\ UNCHANGED othersService
    \/ AA_NewIndexPool /\ UNCHANGED othersService
    \/ AA_Clean /\ UNCHANGED othersService
    \/ AA_Sync /\ UNCHANGED othersService
    \/ AA_Scan /\ UNCHANGED othersService
    \/ AA_SetLowest /\ UNCHANGED othersService
    \/ AA_Pointers /\ UNCHANGED othersService
    \/ AA_PublishPointers /\ UNCHANGED othersService
    \/ AA_NewBackend /\ UNCHANGED othersService
    \/ AA_Warmup /\ UNCHANGED othersService
    \/ AA_SetReady /\ UNCHANGED othersService
    \/ AA_Probe /\ UNCHANGED othersService
    \/ AA_Register /\ UNCHANGED othersService
    \/ AA_GoLaunch /\ UNCHANGED othersService
    \/ APP_Shutdown /\ UNCHANGED othersService
    \/ AB_Register /\ UNCHANGED othersService
    \/ AB_StartServer /\ UNCHANGED othersService
    \/ AB_ServeFail /\ UNCHANGED othersService
    \/ AB_Terminating /\ UNCHANGED othersService
    \/ ST_NotReady /\ UNCHANGED othersService
    \/ ST_Publish /\ UNCHANGED othersService
    \/ ST_Sleep /\ UNCHANGED othersService
    \/ ST_HTTP /\ UNCHANGED othersService
    \/ ST_Close /\ UNCHANGED othersService
    \/ FS_Listen /\ UNCHANGED othersService
    \/ FS_Ready /\ UNCHANGED othersService
    \/ FS_Publish /\ UNCHANGED othersService
    \/ FS_Serve /\ UNCHANGED othersService
    \/ FS_ServeFail /\ UNCHANGED othersService
    \/ FS_Shutdown /\ UNCHANGED othersService
    \/ FS_Terminating /\ UNCHANGED othersService

\* the position of the first occurrence of step in the trace, 0 when absent
Pos(step) ==
    LET at == {i \in 1..Len(svTrace) : svTrace[i].step = step}
    IN IF at = {} THEN 0 ELSE CHOOSE i \in at : \A j \in at : i <= j

\* the step failed
Failed(step) == \E i \in 1..Len(svTrace) : svTrace[i].step = step /\ ~svTrace[i].ok

PeerWriters == {"app", "backend", "forkresolver"}

\* C16: every write of the archive app, the archive backend and the fork
\* resolver to a field of searchPeer happens between the lock and the unlock
\* of a searchPeer.Locked call of that component, and the next operation of
\* the component on the peer after such a call is PublishNow: until then the
\* component is at its PublishNow statement.
C16_WritesLockedAndPublished ==
    /\ \A i \in 1..Len(peOps) :
          (peOps[i].op = "write" /\ peOps[i].by \in PeerWriters) =>
              \E j \in 1..(i - 1) :
                  /\ peOps[j].op = "lock" /\ peOps[j].by = peOps[i].by
                  /\ \A k \in (j + 1)..(i - 1) : peOps[k].op = "write"
    /\ \A i \in 1..Len(peOps) :
          (peOps[i].op \in {"write", "unlock"} /\ peOps[i].by \in PeerWriters
              /\ (i < Len(peOps) => peOps[i + 1].op \notin {"write", "unlock"})) =>
              IF i < Len(peOps)
              THEN peOps[i + 1].op = "publish" /\ peOps[i + 1].by = peOps[i].by
              ELSE \/ peOps[i].by = "app" /\ aaPc = "publishPointers"
                   \/ peOps[i].by = "backend" /\ stPc = "publish"
                   \/ peOps[i].by = "forkresolver" /\ fsPc = "publish"

C16_Witness ==
    /\ stPc = "done"
    /\ \E i \in 1..Len(peOps) : peOps[i].by = "app" /\ peOps[i].op = "write"
    /\ \E i \in 1..Len(peOps) :
          /\ peOps[i].by = "backend" /\ peOps[i].op = "write" /\ peOps[i].arg = "Ready"
          /\ peOps[i + 2].op = "publish"

\* the steps App.Run takes before SetReady, for the given configuration
StepsBeforeReady(cfg) ==
    <<"clean">> \o (IF cfg.SyncFromStore THEN <<"sync">> ELSE <<>>)
    \o <<"scan", "lowest", "pointers", "publishPointers", "backend">>
    \o (IF cfg.Warmup THEN <<"warmup">> ELSE <<>>)

\* C17: SetReady is called only after cleanup, the optional sync, the scan,
\* SetLowestServeableBlockNum, the publication of the pointers and the optional
\* warm-up have succeeded, in this order; when one of them fails Run returns
\* an error, SetReady is never called and the backend is never launched.
C17_ReadyAfterBootstrap ==
    /\ Pos("setready") # 0 =>
          LET before == SubSeq(svTrace, 1, Pos("setready") - 1)
          IN /\ [i \in 1..Len(before) |-> before[i].step] = StepsBeforeReady(aaCfg)
             /\ \A i \in 1..Len(before) : before[i].ok
    /\ (\E s \in {"clean", "sync", "scan", "lowest", "publishPointers", "warmup"} :
            Failed(s)) =>
          /\ aaPc = "done"
          /\ aaRet \notin {"none", ErrNil}
          /\ Pos("setready") = 0
          /\ Pos("launch") = 0
          /\ abPc = "none"

C17_Witness ==
    /\ aaCfg.SyncFromStore /\ aaCfg.Warmup
    /\ Pos("setready") # 0
    /\ pePeer.Ready
    /\ abPc = "register"

\* the steps of App.Run that call the index pool
PoolSteps == {"clean", "sync", "scan", "lowest"}

\* C32: in the archive App.Run every bootstrap step that returns an error,
\* the creation of the index pool included, makes Run return an error before
\* any later step is executed: a failed call on the pool is the last step
\* of Run, and no call is made on a pool whose creation failed.
C32_FailedStepReturns ==
    svKind = "archive" =>
        /\ \A i \in 1..Len(svTrace) :
              (svTrace[i].step \in PoolSteps /\ ~svTrace[i].ok) =>
                  /\ i = Len(svTrace)
                  /\ aaPc = "done"
                  /\ aaRet \notin {"none", ErrNil}
        /\ aaPoolErr =>
              /\ \A i \in 1..Len(svTrace) : svTrace[i].step \notin PoolSteps
              /\ aaPc \in {"clean", "done"}

\* a call on the pool failed and Run returned its error
C32_PoolCallFailedReached ==
    /\ svKind = "archive"
    /\ aaPc = "done" /\ aaRet = ErrScan
    /\ svTrace # <<>> /\ ~svTrace[Len(svTrace)].ok

\* App.Run has written the pointers of the peer (lines 164-170)
PointersWritten == \E i \in 1..Len(svTrace) : svTrace[i].step = "pointers"

\* C33: after the archive bootstrap the pointers of the peer satisfy
\* HeadBlock = IrrBlock and IrrBlock + 1 >= TailBlock without unsigned
\* wrap-around: IrrBlock is the last read-only indexed block of the pool, or
\* resolvedStartBlock - 1, which is never computed from resolvedStartBlock = 0.
C33_PointersNoWrap ==
    (svKind = "archive" /\ PointersWritten) =>
        /\ pePeer.HeadBlock = pePeer.IrrBlock
        /\ pePeer.TailBlock = aaResolved
        /\ pePeer.IrrBlock + 1 >= pePeer.TailBlock
        /\ \/ pePeer.IrrBlock = aaLast.num
           \/ aaResolved # 0 /\ pePeer.IrrBlock = aaResolved - 1

\* the pointers were written for a relative start block resolved above 0 on
\* a pool without read-only index
C33_PredecessorReached ==
    /\ svKind = "archive" /\ PointersWritten
    /\ aaCfg.StartBlock < 0 /\ aaResolved > 0 /\ aaLast.num = 0
    /\ pePeer.IrrBlock = aaResolved - 1

\* net.Listen of the fork resolver has failed
ListenFailed == \E i \in 1..Len(fsShutdowns) : fsShutdowns[i] = ErrListen

\* the gRPC listener of the fork resolver has been bound
ListenerBound == fsPc # "listen" /\ ~ListenFailed

\* the publication of the ready peer by the fork resolver has failed
ReadyPublishFailed ==
    \E i \in 1..Len(peOps) :
        peOps[i] = [by |-> "forkresolver", op |-> "publish", arg |-> "err"]

\* C30: the fork resolver sets Ready = true and publishes its peer only
\* after its gRPC listener was bound; when the listener cannot be bound the
\* peer is never marked ready; when the publication of the ready peer fails
\* the fork resolver is shut down with that error and never serves gRPC.
C30_ReadyAfterListenerBound ==
    svKind = "forkresolver" =>
        /\ (pePeer.Ready \/ peOps # <<>>) => ListenerBound
        /\ ListenFailed => ~pePeer.Ready /\ peOps = <<>> /\ ~fsServing
        /\ ReadyPublishFailed =>
              /\ \E i \in 1..Len(fsShutdowns) : fsShutdowns[i] = ErrPublish
              /\ fsShut # "up"
              /\ ~fsServing
        /\ fsServing =>
              \E i \in 1..Len(peOps) :
                  peOps[i] = [by |-> "forkresolver", op |-> "publish", arg |-> "ok"]

\* C30 witness: the listener was bound, the peer was marked ready, its
\* publication failed and Launch returned with that error
C30_Witness ==
    /\ svKind = "forkresolver"
    /\ ListenerBound
    /\ pePeer.Ready
    /\ ReadyPublishFailed
    /\ fsShut = ErrPublish
    /\ fsPc = "returned"

\* the listener could not be bound and Launch returned
C30_ListenFailedReached == ListenFailed /\ fsPc = "returned" /\ fsShut = ErrListen

\* the fork resolver serves gRPC with a ready, published peer
C30_ServingReached == fsServing /\ pePeer.Ready /\ fsShut = "up"

---------------------------------------------------------------------------
(* indexer.Indexer.Launch, cleanup and the shutter *)

\* at most MaxUploads uploads are in flight
MaxUploads == 2

ErrCompleted == "indexing completed"
ErrWrappedCompleted == "source terminated: indexing completed"
ErrSource == "source failed"

ErrCompletedThenMore == "indexing completed: flushing failed"

\* err.Error(): the message of an error, as a sequence of pieces of text
ErrorText(err) ==
    CASE err = ErrCompleted -> <<"indexing completed">>
      [] err = ErrWrappedCompleted -> <<"source terminated: ", "indexing completed">>
      [] err = ErrCompletedThenMore -> <<"indexing completed", ": flushing failed">>
      [] OTHER -> <<err>>

\* strings.HasSuffix(s, suffix)
StringsHasSuffix(str, suffix) ==
    /\ Len(str) >= Len(suffix)
    /\ SubSeq(str, Len(str) - Len(suffix) + 1, Len(str)) = suffix

HasCompletedSuffixUnwrappedOnly(err) == ErrorText(err) = ErrorText(ErrCompleted)

\* strings.HasSuffix(err.Error(), CompletedError.Error()), line 234
HasCompletedSuffix(err) == StringsHasSuffix(ErrorText(err), ErrorText(ErrCompleted))

\* the error Launch passes to Shutdown once the source has stopped (lines 234-244)
LaunchShutdownErr(srcErr) ==
    IF srcErr # ErrNil /\ HasCompletedSuffix(srcErr) THEN ErrNil ELSE srcErr

\* i.Shutdown(err): the first call records the error, closes the terminating
\* channel and calls the OnTerminating callbacks registered at that time;
\* when Launch has not registered its callback yet none is called and the
\* shutter is terminated at once
IndexerShutdown(err) ==
    IF ixShut # "up" THEN UNCHANGED <<ixShut, ixShutErr, ixCb>>
    ELSE /\ ixShutErr' = err
         /\ IF ixRegistered
            THEN ixShut' = "terminating" /\ ixCb' = "source"
            ELSE ixShut' = "terminated" /\ UNCHANGED ixCb

\* the application is shut down: its OnTerminating callback is dexer.Shutdown
\* (app.go, line 179)
IX_AppShutdown ==
    /\ ixAppShut = "up"
    /\ ixAppShut' = "down"
    /\ IndexerShutdown(ErrNil)
    /\ UNCHANGED <<ixRegistered, ixPc, ixSrc, ixSrcErr, ixSrcShutdowns, ixShuttingDown,
                   ixUploads, ixWaited, ixLaunchArg>>

\* Launch, lines 221-226
IX_Register ==
    /\ ixPc = "register"
    /\ ixRegistered' = TRUE
    /\ ixPc' = "run"
    /\ UNCHANGED <<ixAppShut, ixShut, ixShutErr, ixCb, ixSrc, ixSrcErr, ixSrcShutdowns,
                   ixShuttingDown, ixUploads, ixWaited, ixLaunchArg>>

\* Launch, line 231: i.source.Run() starts the source, unless it was shut down
IX_RunSource ==
    /\ ixPc = "run"
    /\ ixPc' = "running"
    /\ ixSrc' = IF ixSrc = "idle" THEN "running" ELSE ixSrc
    /\ UNCHANGED <<ixAppShut, ixShut, ixShutErr, ixRegistered, ixCb, ixSrcErr,
                   ixSrcShutdowns, ixShuttingDown, ixUploads, ixWaited, ixLaunchArg>>

\* the running source passes a block to the pipeline, which starts an upload
IX_Block ==
    /\ ixSrc = "running"
    /\ ixUploads < MaxUploads
    /\ ixUploads' = ixUploads + 1
    /\ UNCHANGED <<ixAppShut, ixShut, ixShutErr, ixRegistered, ixPc, ixCb, ixSrc, ixSrcErr,
                   ixSrcShutdowns, ixShuttingDown, ixWaited, ixLaunchArg>>

\* an upload of the pipeline ends
IX_UploadDone ==
    /\ ixUploads > 0
    /\ ixUploads' = ixUploads - 1
    /\ UNCHANGED <<ixAppShut, ixShut, ixShutErr, ixRegistered, ixPc, ixCb, ixSrc, ixSrcErr,
                   ixSrcShutdowns, ixShuttingDown, ixWaited, ixLaunchArg>>

\* the source stops by itself
IX_SourceEnds ==
    /\ ixSrc = "running"
    /\ ixSrc' = "ended"
    /\ ixSrcErr' \in {ErrNil, ErrCompleted, ErrWrappedCompleted, ErrCompletedThenMore,
                    ErrSource}
    /\ UNCHANGED <<ixAppShut, ixShut, ixShutErr, ixRegistered, ixPc, ixCb, ixSrcShutdowns,
                   ixShuttingDown, ixUploads, ixWaited, ixLaunchArg>>

\* Launch, lines 233-244: i.source.Run() has returned
IX_AfterRun ==
    /\ ixPc = "running"
    /\ ixSrc \in {"ended", "shutdown"}
    /\ ixPc' = "returned"
    /\ ixLaunchArg' = LaunchShutdownErr(ixSrcErr)
    /\ IndexerShutdown(LaunchShutdownErr(ixSrcErr))
    /\ UNCHANGED <<ixAppShut, ixRegistered, ixSrc, ixSrcErr, ixSrcShutdowns,
                   ixShuttingDown, ixUploads, ixWaited>>

\* the callback, lines 222-223: i.source.Shutdown(e)
IX_CbSourceShutdown ==
    /\ ixCb = "source"
    /\ ixSrcShutdowns' = Append(ixSrcShutdowns, ixShutErr)
    /\ IF ixSrc \in {"idle", "running"}
       THEN ixSrc' = "shutdown" /\ ixSrcErr' = ixShutErr
       ELSE UNCHANGED <<ixSrc, ixSrcErr>>
    /\ ixCb' = "cleanup"
    /\ UNCHANGED <<ixAppShut, ixShut, ixShutErr, ixRegistered, ixPc, ixShuttingDown,
                   ixUploads, ixWaited, ixLaunchArg>>

\* cleanup, lines 248-249
IX_CbCleanup ==
    /\ ixCb = "cleanup"
    /\ ixShuttingDown' = TRUE
    /\ ixCb' = "wait"
    /\ UNCHANGED <<ixAppShut, ixShut, ixShutErr, ixRegistered, ixPc, ixSrc, ixSrcErr,
                   ixSrcShutdowns, ixUploads, ixWaited, ixLaunchArg>>

\* cleanup, lines 251-256: WaitOnUploads returns when no upload is in flight;
\* the callback returns and the shutter is terminated
IX_CbWaitOnUploads ==
    /\ ixCb = "wait"
    /\ ixUploads = 0
    /\ ixWaited' = TRUE
    /\ ixCb' = "done"
    /\ ixShut' = "terminated"
    /\ ixAppShut' = "down"
    /\ UNCHANGED <<ixShutErr, ixRegistered, ixPc, ixSrc, ixSrcErr, ixSrcShutdowns,
                   ixShuttingDown, ixUploads, ixLaunchArg>>

NextLaunch ==
    \/ IX_AppShutdown /\ UNCHANGED othersLaunch
    \/ IX_Register /\ UNCHANGED othersLaunch
    \/ IX_RunSource /\ UNCHANGED othersLaunch
    \/ IX_Block /\ UNCHANGED othersLaunch
    \/ IX_UploadDone /\ UNCHANGED othersLaunch
    \/ IX_SourceEnds /\ UNCHANGED othersLaunch
    \/ IX_AfterRun /\ UNCHANGED othersLaunch
    \/ IX_CbSourceShutdown /\ UNCHANGED othersLaunch
    \/ IX_CbCleanup /\ UNCHANGED othersLaunch
    \/ IX_CbWaitOnUploads /\ UNCHANGED othersLaunch

\* C15: an indexer that has reached its terminated state has shut its source
\* down and has seen WaitOnUploads return, whatever the interleaving of
\* Shutdown with Launch.
C15_TerminatedAfterDrain ==
    ixShut = "terminated" => (ixSrcShutdowns # <<>> /\ ixWaited)

\* C27: when the source has stopped, Launch passes nil to Shutdown exactly
\* when the source error is nil or its message ends with the CompletedError
\* text, and passes any other source error as it is
C27_LaunchShutdownError ==
    ixPc = "returned" =>
        /\ ixLaunchArg = ErrNil <=>
               ixSrcErr \in {ErrNil, ErrCompleted, ErrWrappedCompleted}
        /\ ixLaunchArg # ErrNil => ixLaunchArg = ixSrcErr

\* C27 witness: the source stopped with the CompletedError wrapped in another
\* message, and Launch shut the indexer down with nil
C27_Witness ==
    /\ ixPc = "returned"
    /\ ixSrcErr = ErrWrappedCompleted
    /\ ixLaunchArg = ErrNil
    /\ ixShutErr = ErrNil /\ ixShut # "up"

\* the source stopped with an error that only begins with the CompletedError
\* text, and Launch passed it on
C27_PassedReached ==
    /\ ixPc = "returned"
    /\ ixSrcErr = ErrCompletedThenMore
    /\ ixLaunchArg = ErrCompletedThenMore /\ ixShutErr = ErrCompletedThenMore

---------------------------------------------------------------------------
(* live App.getStartBlock *)

\* the LIBs reported have numbers 0..MaxLib
MaxLib == 4
\* StartBlockDriftTolerance is drawn from 0..MaxTolerance
MaxTolerance == 2

\* the iterations begun since the termination request are counted up to MaxAfterTerm
MaxAfterTerm == 3

LiveAppStartAborted == "getting start block aborted by live application"
ErrBlockmeta == "getting blockmeta headinfo client"
ErrRestrictions == "failed parsing restrictions JSON"
ErrHub == "setting up subscription hub"

\* a nil bstream.BlockRef, and the block references with an ID and a number
NilRef == [nil |-> TRUE, id |-> "", num |-> 0]
NewBlockRef(id, num) == [nil |-> FALSE, id |-> id, num |-> num]
LibRefs == {NewBlockRef(id, num) : id \in {"a", "b"}, num \in 0..MaxLib}

NothingSeen == [archive |-> NilRef, stream |-> NilRef, network |-> NilRef]

startBlockFromDmeshNoTweak(meshLIB) == meshLIB

\* startBlockFromDmesh: live.GetMeshLIB(dmesh.Peers, 1), raised to block 2
startBlockFromDmesh(meshLIB) ==
    IF ~meshLIB.nil
    THEN IF meshLIB.num < 2 THEN NewBlockRef("", 2) ELSE meshLIB
    ELSE NilRef

CloseToInclusive(ref, fromArchive, tolerance) ==
    ref.num >= fromArchive.num /\ ref.num - fromArchive.num <= tolerance

\* the comparison of lines 433 and 442
CloseTo(ref, fromArchive, tolerance) ==
    ref.num >= fromArchive.num /\ ToUint64(ref.num - fromArchive.num) < tolerance

laData == <<laPc, laRet, laHub, laLaunched>>

\* the application is shut down
GS_Terminate ==
    /\ ~gsTerminating
    /\ laPc # "returned"
    /\ gsTerminating' = TRUE
    /\ UNCHANGED <<gsTolerance, gsPc, gsIterations, gsSeen, gsRet, gsAfterTerm>>
    /\ UNCHANGED laData

GS_CheckNoTermination ==
    /\ gsPc = "check"
    /\ gsPc' = "mesh" /\ UNCHANGED gsRet
    /\ UNCHANGED <<gsTolerance, gsTerminating, gsIterations, gsSeen, gsAfterTerm>>
    /\ UNCHANGED laData

\* lines 411-417
GS_Check ==
    /\ gsPc = "check"
    /\ IF gsTerminating
       THEN gsPc' = "done" /\ gsRet' = [ref |-> NilRef, err |-> LiveAppStartAborted]
       ELSE gsPc' = "mesh" /\ UNCHANGED gsRet
    /\ UNCHANGED <<gsTolerance, gsTerminating, gsIterations, gsSeen, gsAfterTerm>>
    /\ UNCHANGED laData

\* "return fromArchive, nil"
GS_Return(fromArchive) == gsPc' = "done" /\ gsRet' = [ref |-> fromArchive, err |-> ErrNil]

\* "continue"
GS_Continue == gsPc' = "check" /\ gsIterations' = TRUE /\ UNCHANGED gsRet

\* lines 419-423: the mesh holds an archive LIB or none
GS_Mesh ==
    /\ gsPc = "mesh"
    /\ \E meshLIB \in LibRefs \cup {NilRef} :
          /\ gsSeen' = [archive |-> meshLIB, stream |-> NilRef, network |-> NilRef]
          /\ IF startBlockFromDmesh(meshLIB).nil
             THEN GS_Continue
             ELSE gsPc' = "stream" /\ UNCHANGED <<gsRet, gsIterations>>
    /\ gsAfterTerm' = IF gsTerminating /\ gsAfterTerm < MaxAfterTerm
                      THEN gsAfterTerm + 1 ELSE gsAfterTerm
    /\ UNCHANGED <<gsTolerance, gsTerminating>>
    /\ UNCHANGED laData

\* lines 425-429: the head-info service answers with the stream LIB or not
GS_Stream ==
    /\ gsPc = "stream"
    /\ \E fromStream \in LibRefs \cup {NilRef} :
          /\ gsSeen' = [gsSeen EXCEPT !.stream = fromStream]
          /\ IF fromStream.nil
             THEN GS_Continue
             ELSE gsPc' = "network" /\ UNCHANGED <<gsRet, gsIterations>>
    /\ UNCHANGED <<gsTolerance, gsTerminating, gsAfterTerm>>
    /\ UNCHANGED laData

\* lines 431-458: the head-info service answers with the network LIB or not
GS_Network ==
    /\ gsPc = "network"
    /\ \E fromNetwork \in LibRefs \cup {NilRef} :
          LET fromArchive == startBlockFromDmesh(gsSeen.archive)
              ref == IF fromNetwork.nil THEN gsSeen.stream ELSE fromNetwork
          IN /\ gsSeen' = [gsSeen EXCEPT !.network = fromNetwork]
             /\ IF CloseTo(ref, fromArchive, gsTolerance)
                THEN GS_Return(fromArchive) /\ UNCHANGED gsIterations
                ELSE GS_Continue
    /\ UNCHANGED <<gsTolerance, gsTerminating, gsAfterTerm>>
    /\ UNCHANGED laData

gsData == <<gsTolerance, gsTerminating, gsIterations, gsSeen, gsRet, gsAfterTerm>>

\* "return err" / "return nil" of the live App.Run
LA_Return(err) == laPc' = "returned" /\ laRet' = err

\* lines 293-316: the blocks store, the peer and its publication, the live
\* backend and the blockmeta client; then getStartBlock is called
LA_Setup ==
    /\ laPc = "setup"
    /\ \E err \in {ErrNil, ErrStore, ErrPublish, ErrBlockmeta} :
          IF err # ErrNil
          THEN LA_Return(err) /\ UNCHANGED gsPc
          ELSE laPc' = "getStartBlock" /\ gsPc' = "check" /\ UNCHANGED laRet
    /\ UNCHANGED <<laHub, laLaunched>>
    /\ UNCHANGED gsData

\* lines 317-327: getStartBlock has returned
LA_StartBlock ==
    /\ laPc = "getStartBlock"
    /\ gsPc = "done"
    /\ IF gsRet.err # ErrNil
       THEN IF gsRet.err = LiveAppStartAborted
            THEN LA_Return(ErrNil)
            ELSE LA_Return(gsRet.err)
       ELSE IF gsRet.ref.nil
            THEN LA_Return(ErrNil)
            ELSE laPc' = "restrictions" /\ UNCHANGED laRet
    /\ UNCHANGED <<laHub, laLaunched, gsPc>>
    /\ UNCHANGED gsData

\* lines 334-337
LA_Restrictions ==
    /\ laPc = "restrictions"
    /\ \E ok \in BOOLEAN :
          IF ok THEN laPc' = "hub" /\ UNCHANGED laRet
          ELSE LA_Return(ErrRestrictions)
    /\ UNCHANGED <<laHub, laLaunched, gsPc>>
    /\ UNCHANGED gsData

\* lines 342-357: the subscription hub is set up and the shutdown callbacks
\* are registered
LA_SetupSubscriptionHub ==
    /\ laPc = "hub"
    /\ laHub' = TRUE
    /\ \E ok \in BOOLEAN :
          IF ok THEN laPc' = "probe" /\ UNCHANGED laRet
          ELSE LA_Return(ErrHub)
    /\ UNCHANGED <<laLaunched, gsPc>>
    /\ UNCHANGED gsData

\* lines 359-373: the readiness probe, then the goroutine that waits for the
\* hub and launches the live backend
LA_Launch ==
    /\ laPc = "probe"
    /\ \E ok \in BOOLEAN :
          IF ok THEN laLaunched' = TRUE /\ LA_Return(ErrNil)
          ELSE LA_Return(ErrProbe) /\ UNCHANGED laLaunched
    /\ UNCHANGED <<laHub, gsPc>>
    /\ UNCHANGED gsData

NextStart ==
    \/ GS_Terminate /\ UNCHANGED othersStart
    \/ GS_Check /\ UNCHANGED othersStart
    \/ GS_Mesh /\ UNCHANGED othersStart
    \/ GS_Stream /\ UNCHANGED othersStart
    \/ GS_Network /\ UNCHANGED othersStart
    \/ LA_Setup /\ UNCHANGED othersStart
    \/ LA_StartBlock /\ UNCHANGED othersStart
    \/ LA_Restrictions /\ UNCHANGED othersStart
    \/ LA_SetupSubscriptionHub /\ UNCHANGED othersStart
    \/ LA_Launch /\ UNCHANGED othersStart

\* the reference LIB of the last iteration: the network LIB when available,
\* otherwise the stream LIB
ReferenceLIB == IF gsSeen.network.nil THEN gsSeen.stream ELSE gsSeen.network

\* getStartBlock returned a start block
GS_Returned == gsPc = "done" /\ gsRet.err = ErrNil

\* the last iteration ran to its end without returning
GS_Retried == gsPc = "check" /\ gsIterations

\* C18 as stated: getStartBlock returns only the archive LIB taken from the
\* mesh, and only in an iteration where the reference LIB is >= the archive
\* LIB and exceeds it by strictly less than StartBlockDriftTolerance; every
\* other iteration waits and retries.
C18_ReturnsMeshLIB ==
    LET close == /\ ~gsSeen.archive.nil /\ ~gsSeen.stream.nil
                 /\ ReferenceLIB.num >= gsSeen.archive.num
                 /\ ReferenceLIB.num - gsSeen.archive.num < gsTolerance
    IN /\ GS_Returned => (gsRet.ref = gsSeen.archive /\ close)
       /\ GS_Retried => ~close

\* the archive LIB of the last iteration with a number below 2 replaced by
\* block number 2 with an empty ID
RaisedArchiveLIB ==
    IF gsSeen.archive.num < 2 THEN [nil |-> FALSE, id |-> "", num |-> 2]
    ELSE gsSeen.archive

\* C18 amended: getStartBlock returns only the archive LIB taken from the
\* mesh, replaced by block number 2 with an empty ID when its number is below
\* 2, and only in an iteration where the reference LIB is >= that value and
\* exceeds it by strictly less than StartBlockDriftTolerance; every other
\* iteration waits and retries.
C18_ReturnsRaisedMeshLIB ==
    LET close == /\ ~gsSeen.archive.nil /\ ~gsSeen.stream.nil
                 /\ ReferenceLIB.num >= RaisedArchiveLIB.num
                 /\ ReferenceLIB.num - RaisedArchiveLIB.num < gsTolerance
    IN /\ GS_Returned => (gsRet.ref = RaisedArchiveLIB /\ close)
       /\ GS_Retried => ~close

C18_Witness ==
    /\ GS_Returned
    /\ gsSeen.network.nil
    /\ gsSeen.stream.num = gsSeen.archive.num + 1
    /\ gsSeen.stream.id # gsSeen.archive.id
    /\ gsRet.ref = gsSeen.archive
    /\ gsTolerance = 2

\* C38: every start block getStartBlock returns has a block number >= 2: an
\* archive LIB below 2 taken from the mesh is replaced by block number 2
\* with an empty ID before the drift comparison and before it is returned.
C38_StartBlockAtLeastTwo ==
    GS_Returned =>
        /\ ~gsRet.ref.nil
        /\ gsRet.ref.num >= 2
        /\ gsSeen.archive.num < 2 =>
              /\ gsRet.ref = NewBlockRef("", 2)
              /\ ReferenceLIB.num >= 2
              /\ ReferenceLIB.num - 2 < gsTolerance

\* C38 witness: the mesh held an archive LIB with number 0 and a network
\* LIB was available; getStartBlock returned block number 2 with an empty ID
C38_Witness ==
    /\ GS_Returned
    /\ gsSeen.archive.num = 0 /\ gsSeen.archive.id # ""
    /\ ~gsSeen.network.nil
    /\ gsRet.ref = NewBlockRef("", 2)

\* C25: once the live app is terminating, getStartBlock begins at most the
\* iteration it is in and returns LiveAppStartAborted at the next check of
\* its loop; App.Run then returns nil, and the subscription hub is never set
\* up and the live backend never launched.
C25_AbortedOnTermination ==
    /\ gsAfterTerm <= 1
    /\ (gsPc = "done" /\ gsRet.err # ErrNil) =>
          /\ gsTerminating /\ gsRet = [ref |-> NilRef, err |-> LiveAppStartAborted]
          /\ ~laHub /\ ~laLaunched
          /\ laPc \in {"getStartBlock", "returned"}
          /\ laPc = "returned" => laRet = ErrNil

\* C25 witness: the app started terminating while getStartBlock was in an
\* iteration that ended in a retry; getStartBlock returned
\* LiveAppStartAborted at the next check and App.Run returned nil
C25_Witness ==
    /\ gsTerminating /\ gsAfterTerm = 1 /\ gsIterations
    /\ gsRet.err = LiveAppStartAborted
    /\ laPc = "returned" /\ laRet = ErrNil
    /\ ~laHub /\ ~laLaunched

---------------------------------------------------------------------------
(* indexer.Indexer.BuildBatchPipeline and BuildLivePipeline *)

\* the chain holds blocks numbered 0..MaxChain
MaxChain == 2
\* numberOfBlocksToFetchBeforeStarting is drawn from 0..MaxLookback
MaxLookback == 2
\* the eternal source restarts its source at most MaxRestarts times
MaxRestarts == 1
\* a live source hands out at most MaxSourced blocks before it fails or ends
MaxSourced == 3

\* the blocks: two competing blocks for every number
ChainBlocks == [id : {"a", "b"}, num : 0..MaxChain]

\* the steps of the forkable
StepNew == "new"
StepUndo == "undo"
StepIrreversible == "irreversible"

BatchFiltersWithNew == {StepNew, StepIrreversible}

\* forkable.WithFilters(forkable.StepIrreversible), line 194
BatchFilters == {StepIrreversible}

LiveFiltersAll == {StepNew, StepUndo, StepIrreversible}

\* forkable.WithFilters(forkable.StepNew|forkable.StepIrreversible), line 177
LiveFilters == {StepNew, StepIrreversible}

GateInclusive == "inclusive"
GateExclusive == "exclusive"

LiveGateTypeInclusive == GateInclusive

\* bstream.NewBlockIDGate(startBlockRef.ID(), bstream.GateExclusive, h), line 135
LiveGateType == GateExclusive

BatchGateTypeExclusive == GateExclusive

\* bstream.NewBlockNumGate(startBlockNum, bstream.GateInclusive, pipe), line 191
BatchGateType == GateInclusive

getBlocksFromNoGuard(startBlockNum, lookback) == ToUint64(startBlockNum - lookback)

\* lines 196-199
getBlocksFrom(startBlockNum, lookback) ==
    IF startBlockNum > lookback THEN ToUint64(startBlockNum - lookback)
    ELSE startBlockNum

\* a gate: once passed it lets every block through; the block that opens it
\* is let through by an inclusive gate only
GateLets(gateType, passed, opens) ==
    passed \/ (opens /\ gateType = GateInclusive)

\* BuildBatchPipeline
PP_BuildBatch ==
    /\ ppPc = "build" /\ ppMode = "batch"
    /\ ppFrom' = getBlocksFrom(ppStart, ppLookback)
    /\ ppSrcNext' = getBlocksFrom(ppStart, ppLookback)
    /\ ppPc' = "run"
    /\ UNCHANGED <<ppMode, ppStart, ppLookback, ppLast, ppGateID, ppPassed, ppRestarts,
                   ppSourced, ppReceived, ppThrough, ppIrrNum, ppHandled>>

\* BuildLivePipeline and the first call of the source factory: the start
\* block reference has no ID and lastProcessedBlock takes its place
PP_BuildLive ==
    /\ ppPc = "build" /\ ppMode = "live"
    /\ ppGateID' = ppLast
    /\ ppFrom' = ppLast.num
    /\ ppPc' = "run"
    /\ UNCHANGED <<ppMode, ppStart, ppLookback, ppLast, ppPassed, ppRestarts, ppSrcNext,
                   ppSourced, ppReceived, ppThrough, ppIrrNum, ppHandled>>

\* the steps the forkable emits when it receives blk: the undo of a block of
\* the same number it holds or none, the new step of blk, and the irreversible
\* step of a block above the last irreversible one or none
ForkableSteps(blk, received, irrNum) ==
    {[undo |-> u, irr |-> i] :
        u \in {{}} \cup {{b} : b \in {c \in received \ {blk} : c.num = blk.num}},
        i \in {{}} \cup {{b} : b \in {c \in received \cup {blk} : c.num > irrNum}}}

\* the steps among those of choice that the filters let through
Filtered(blk, choice, filters) ==
    {s \in {[step |-> StepUndo, id |-> b.id, num |-> b.num] : b \in choice.undo}
           \cup {[step |-> StepNew, id |-> blk.id, num |-> blk.num]}
           \cup {[step |-> StepIrreversible, id |-> b.id, num |-> b.num] : b \in choice.irr} :
        s.step \in filters}

\* the highest irreversible block number after choice
IrrAfter(choice, irrNum) ==
    IF choice.irr = {} THEN irrNum ELSE (CHOOSE b \in choice.irr : TRUE).num

\* batch: the file source reads the next block and hands it to the forkable,
\* whose filtered steps go through the block number gate to the pipeline
PB_Block ==
    /\ ppPc = "run" /\ ppMode = "batch"
    /\ ppSrcNext <= MaxChain
    /\ \E blk \in {b \in ChainBlocks : b.num = ppSrcNext} :
       \E choice \in ForkableSteps(blk, ppReceived, ppIrrNum) :
          LET steps == Filtered(blk, choice, BatchFilters)
              opens == \E s \in steps : s.num >= ppStart
              let == {s \in steps : GateLets(BatchGateType, ppPassed, s.num >= ppStart)}
          IN /\ ppReceived' = ppReceived \cup {blk}
             /\ ppIrrNum' = IrrAfter(choice, ppIrrNum)
             /\ ppPassed' = (ppPassed \/ opens)
             /\ ppHandled' = ppHandled \cup let
    /\ ppSrcNext' = ppSrcNext + 1
    /\ UNCHANGED <<ppMode, ppPc, ppStart, ppLookback, ppLast, ppFrom, ppGateID,
                   ppRestarts, ppSourced, ppThrough>>

\* live: the joining source hands a block to the block ID gate; what the gate
\* lets through goes to the forkable, whose filtered steps go to the pipeline
PL_Block ==
    /\ ppPc = "run" /\ ppMode = "live"
    /\ Cardinality(ppSourced) < MaxSourced
    /\ \E blk \in ChainBlocks \ ppSourced :
          LET opens == blk = ppGateID
          IN /\ ppSourced' = ppSourced \cup {blk}
             /\ IF GateLets(LiveGateType, ppPassed, opens)
                THEN \E choice \in ForkableSteps(blk, ppReceived, ppIrrNum) :
                        /\ ppReceived' = ppReceived \cup {blk}
                        /\ ppThrough' = ppThrough \cup {blk}
                        /\ ppIrrNum' = IrrAfter(choice, ppIrrNum)
                        /\ ppHandled' = ppHandled \cup Filtered(blk, choice, LiveFilters)
                        /\ ppPassed' = (ppPassed \/ opens)
                ELSE /\ ppPassed' = (ppPassed \/ opens)
                     /\ UNCHANGED <<ppReceived, ppThrough, ppIrrNum, ppHandled>>
    /\ UNCHANGED <<ppMode, ppPc, ppStart, ppLookback, ppLast, ppFrom, ppGateID,
                   ppRestarts, ppSrcNext>>

\* live: the source fails and the eternal source calls the source factory
\* with the last block the handler received; a new gate is built on its ID
PL_Restart ==
    /\ ppPc = "run" /\ ppMode = "live"
    /\ ppRestarts < MaxRestarts
    /\ ppRestarts' = ppRestarts + 1
    /\ \E ref \in ppThrough :
          /\ ppGateID' = ref
          /\ ppFrom' = ref.num
    /\ ppPassed' = FALSE
    /\ ppSourced' = {}
    /\ ppThrough' = {}
    /\ UNCHANGED <<ppMode, ppPc, ppStart, ppLookback, ppLast, ppSrcNext, ppReceived,
                   ppIrrNum, ppHandled>>

NextPipe ==
    \/ PP_BuildBatch /\ UNCHANGED othersPipe
    \/ PP_BuildLive /\ UNCHANGED othersPipe
    \/ PB_Block /\ UNCHANGED othersPipe
    \/ PL_Block /\ UNCHANGED othersPipe
    \/ PL_Restart /\ UNCHANGED othersPipe

\* C19 as stated: in batch mode the file source starts reading at
\* startBlockNum - lookback for every startBlockNum, and the difference never
\* wraps below zero
C19_ReadsFromStartMinusLookback ==
    (ppMode = "batch" /\ ppPc = "run") =>
        /\ ppFrom = ppStart - ppLookback
        /\ ppFrom <= ppStart

\* C19 amended: in batch mode the file source starts reading at
\* startBlockNum - lookback when startBlockNum > lookback and at
\* startBlockNum itself otherwise; the difference never wraps below zero, and
\* the first block the source reads is that one
C19_ReadsFromGuardedDifference ==
    (ppMode = "batch" /\ ppPc = "run") =>
        /\ ppStart > ppLookback => ppFrom = ppStart - ppLookback
        /\ ppStart <= ppLookback => ppFrom = ppStart
        /\ ppFrom <= ppStart
        /\ \A b \in ppReceived : b.num >= ppFrom
        /\ ppReceived # {} => \E b \in ppReceived : b.num = ppFrom

\* C19 witness: a batch pipeline with a start block above a positive lookback
\* whose source has read its first block
C19_Witness ==
    /\ ppMode = "batch" /\ ppPc = "run"
    /\ ppLookback > 0 /\ ppStart > ppLookback
    /\ \E b \in ppReceived : b.num = ppStart - ppLookback

C20_BatchReached ==
    /\ ppMode = "batch" /\ ppPassed
    /\ \E s \in ppHandled : s.num = ppStart
    /\ \E b \in ppReceived : b.num < ppStart

---------------------------------------------------------------------------
(* BigQueryShardIndex: newShardIndex and containsBlockNum *)

NoShard == [StartBlock |-> 0, EndBlock |-> 0, made |-> FALSE]

newShardIndexEndPastRange(baseBlockNum, size) ==
    [StartBlock |-> baseBlockNum,
     EndBlock |-> ToUint64(baseBlockNum + size),
     made |-> TRUE]

\* newShardIndex, lines 72-85
newShardIndex(baseBlockNum, size) ==
    [StartBlock |-> baseBlockNum,
     EndBlock |-> IF baseBlockNum = 0 /\ size = 0 THEN 0
                  ELSE ToUint64(baseBlockNum + size - 1),
     made |-> TRUE]

\* containsBlockNum, lines 87-89
containsBlockNum(s, blockNum) ==
    blockNum >= s.StartBlock /\ blockNum <= s.EndBlock

\* NewBigQueryShardIndex(codec, shBase, shSize, pathFunc)
SH_New ==
    /\ shPc = "new"
    /\ shShard' = newShardIndex(shBase, shSize)
    /\ shPc' = "next"
    /\ UNCHANGED <<shBase, shSize, shNextShard, shNum, shIn, shInNext>>

\* the shard that follows: NewBigQueryShardIndex(codec, shBase + shSize, shSize, pathFunc)
SH_NewNext ==
    /\ shPc = "next"
    /\ shNextShard' = newShardIndex(ToUint64(shBase + shSize), shSize)
    /\ shPc' = "probe"
    /\ UNCHANGED <<shBase, shSize, shShard, shNum, shIn, shInNext>>

\* containsBlockNum(n) on both shards
SH_Contains ==
    /\ shPc = "probe"
    /\ \E n \in BlockNums \cup (0..(MaxBlockNum + 2 * MaxShardSize)) :
          /\ shNum' = n
          /\ shIn' = containsBlockNum(shShard, n)
          /\ shInNext' = containsBlockNum(shNextShard, n)
    /\ UNCHANGED <<shBase, shSize, shPc, shShard, shNextShard>>

NextShard ==
    \/ SH_New /\ UNCHANGED othersShard
    \/ SH_NewNext /\ UNCHANGED othersShard
    \/ SH_Contains /\ UNCHANGED othersShard

\* C21: a shard created for base b with size s >= 1 starts at b and ends at
\* b + s - 1, and contains exactly the block numbers b..b+s-1; the shards at
\* b and at b + s share no block number and every block number of
\* b..b+2s-1 is in one of them
C21_ShardRange ==
    shSize >= 1 =>
        /\ shShard.made =>
              /\ shShard.StartBlock = shBase
              /\ shShard.EndBlock = shBase + shSize - 1
        /\ shNextShard.made =>
              /\ shNextShard.StartBlock = shShard.EndBlock + 1
              /\ shNextShard.EndBlock = shBase + 2 * shSize - 1
        /\ shNum >= 0 =>
              /\ shIn <=> (shBase <= shNum /\ shNum <= shBase + shSize - 1)
              /\ ~(shIn /\ shInNext)
              /\ (shBase <= shNum /\ shNum <= shBase + 2 * shSize - 1) => (shIn \/ shInNext)

\* C21 witness: the last block number of a shard of several blocks was asked
\* for and found in that shard, not in the next one
C21_Witness ==
    /\ shSize > 1 /\ shNextShard.made
    /\ shNum = shBase + shSize - 1
    /\ shIn /\ ~shInNext

---------------------------------------------------------------------------
(* PreIndexer.Preprocess and RunSingleIndexQuery over one single index *)

\* the accounts of the actions of the test blocks
Accounts == {"eosio.token", "eosio"}

\* newBlock(id, previous, trxID, account), lines 89-118: the transaction
\* trace of a block, with one action "transfer" on account
NewTrx(trxId, account) ==
    [Id |-> trxId, Account |-> account, Name |-> "transfer", Receiver |-> "receiver.1"]

\* the blocks handed to Preprocess: blocks 1 and 2 with up to MaxTrx
\* transactions; the transaction at index i has the ID trxID(i)
TestBlocks ==
    {[Number |-> n, ID |-> "a", Trxs |-> [i \in 1..k |-> NewTrx(i, acc[i])]] :
        n \in {1, 2}, k \in 0..MaxTrx, acc \in [1..MaxTrx -> Accounts]}

\* parsed queries: field:term, NOT, AND, OR
Term(field, term) == [op |-> "term", field |-> field, term |-> term]
Not(q) == [op |-> "not", q |-> q]
And(p, q) == [op |-> "and", p |-> p, q |-> q]
Or(p, q) == [op |-> "or", p |-> p, q |-> q]

\* NewParsedQuery(pbbstream.Protocol_EOS, "account:eosio.token"), line 54,
\* and other queries over the fields of the test blocks
ParsedQueries ==
    {Term("account", "eosio.token"),
     Term("account", "eosio"),
     Term("action", "transfer"),
     Term("receiver", "eosio.token"),
     Not(Term("account", "eosio.token")),
     And(Term("account", "eosio.token"), Term("action", "transfer")),
     Or(Term("account", "eosio"), Term("receiver", "receiver.1"))}

\* BlockMapper.Map: the document of one transaction, a set of (field, term)
\* pairs with the transaction ID prefix and the transaction index
MapTrx(trx, idx) ==
    [terms |-> {<<"account", trx.Account>>, <<"action", trx.Name>>,
                <<"receiver", trx.Receiver>>},
     trx_id_prefix |-> trx.Id,
     trx_index |-> idx]

NoIndex == [built |-> FALSE, block_num |-> 0, block_id |-> "", docs |-> <<>>]

PreprocessFirstDocOnly(block) ==
    [built |-> TRUE, block_num |-> block.Number, block_id |-> block.ID,
     docs |-> [i \in 1..(IF Len(block.Trxs) > 0 THEN 1 ELSE 0) |->
                  MapTrx(block.Trxs[i], i - 1)]]

\* PreIndexer.Preprocess: the single index of one block, holding the
\* document of every transaction in transaction order
Preprocess(block) ==
    [built |-> TRUE, block_num |-> block.Number, block_id |-> block.ID,
     docs |-> [i \in 1..Len(block.Trxs) |-> MapTrx(block.Trxs[i], i - 1)]]

\* the document satisfies the boolean query
RECURSIVE Satisfies(_, _)
Satisfies(doc, q) ==
    CASE q.op = "term" -> <<q.field, q.term>> \in doc.terms
      [] q.op = "not" -> ~Satisfies(doc, q.q)
      [] q.op = "and" -> Satisfies(doc, q.p) /\ Satisfies(doc, q.q)
      [] q.op = "or" -> Satisfies(doc, q.p) \/ Satisfies(doc, q.q)

\* the matches of docs[from..], in document order
RECURSIVE MatchesFrom(_, _, _)
MatchesFrom(docs, q, from) ==
    IF from > Len(docs) THEN <<>>
    ELSE (IF Satisfies(docs[from], q)
          THEN <<[Index |-> docs[from].trx_index,
                  TrxIDPrefix |-> docs[from].trx_id_prefix]>>
          ELSE <<>>) \o MatchesFrom(docs, q, from + 1)

\* RunSingleIndexQuery(ctx, false, low, high, collector, query, index, ...):
\* the results it may return; a block range that does not hold the block of
\* the index may leave out any of the matches
RunQuery(low, high, q, index) ==
    LET all == MatchesFrom(index.docs, q, 1)
    IN IF low <= index.block_num /\ index.block_num <= high
       THEN {all}
       ELSE {all, <<>>}

\* preIndexer.Preprocess(block), line 46
PI_Preprocess ==
    /\ piPc = "preprocess"
    /\ piIndex' = Preprocess(piBlock)
    /\ piPc' = "query"
    /\ UNCHANGED <<piBlock, piQuery, piLow, piHigh, piMatches>>

\* RunSingleIndexQuery(ctx, sortDesc, lowBlockNum, highBlockNum, ...), line 56
PI_RunQuery ==
    /\ piPc = "query"
    /\ piMatches' \in RunQuery(piLow, piHigh, piQuery, piIndex)
    /\ piPc' = "done"
    /\ UNCHANGED <<piBlock, piQuery, piLow, piHigh, piIndex>>

NextPreIndex ==
    \/ PI_Preprocess /\ UNCHANGED othersPreIndex
    \/ PI_RunQuery /\ UNCHANGED othersPreIndex

\* the transaction of the block satisfies the query, read off the block
RECURSIVE TrxSatisfies(_, _)
TrxSatisfies(trx, q) ==
    CASE q.op = "term" ->
             \/ q.field = "account" /\ q.term = trx.Account
             \/ q.field = "action" /\ q.term = trx.Name
             \/ q.field = "receiver" /\ q.term = trx.Receiver
      [] q.op = "not" -> ~TrxSatisfies(trx, q.q)
      [] q.op = "and" -> TrxSatisfies(trx, q.p) /\ TrxSatisfies(trx, q.q)
      [] q.op = "or" -> TrxSatisfies(trx, q.p) \/ TrxSatisfies(trx, q.q)

\* C22: the query over the single index of a pre-indexed block, with a block
\* range that holds the block, returns one match for every transaction of the
\* block that satisfies the query, and no other match
C22_OneMatchPerSatisfyingTrx ==
    (piPc = "done" /\ piLow <= piBlock.Number /\ piBlock.Number <= piHigh) =>
        /\ \A i \in 1..Len(piBlock.Trxs) :
              TrxSatisfies(piBlock.Trxs[i], piQuery) <=>
                 \E k \in 1..Len(piMatches) :
                    /\ piMatches[k].Index = i - 1
                    /\ piMatches[k].TrxIDPrefix = piBlock.Trxs[i].Id
        /\ \A k \in 1..Len(piMatches) :
              /\ piMatches[k].Index + 1 \in 1..Len(piBlock.Trxs)
              /\ \A j \in 1..Len(piMatches) : piMatches[j].Index = piMatches[k].Index => j = k

\* C22 witness: the test's case with a second transaction that does not
\* satisfy the query: block 1, queried with account:eosio.token over 0..1,
\* returned exactly one match
C22_Witness ==
    /\ piPc = "done"
    /\ piBlock.Number = 1 /\ Len(piBlock.Trxs) = 2
    /\ piBlock.Trxs[2].Account = "eosio.token" /\ piBlock.Trxs[1].Account = "eosio"
    /\ piQuery = Term("account", "eosio.token")
    /\ piLow = 0 /\ piHigh = 1
    /\ Len(piMatches) = 1

---------------------------------------------------------------------------
(* indexer-bigquery App.resolveStartBlock and nextLiveStartBlock *)

ErrNegativeBatch == "invalid negative start block in batch mode"
ErrHeadinfoClient == "getting headinfo client"
ErrLibInfo == "fetching LIB with headinfo"
ErrResolver == "StartBlockResolver.Resolve error"

\* a.config of the indexer app: batch or live, with an absolute or a
\* LIB-relative (negative) start block
IndexerConfigs == [EnableBatchMode : BOOLEAN, StartBlock : {0 - 3, 0 - 1, 0, 1, 4}]

\* a.config.ShardSize
IndexerShardSizes == {2}

\* the LIB numbers the head-info service may report
HeadinfoLibs == {0, 2, 7}

\* every component but this one and NextBaseBlockAfter, which it calls
othersIxResolveCall == <<varsBoot, varsResolve, varsFork, varsStream, varsService, varsLaunch, varsStart, varsPipe, varsShard, varsPreIndex, varsWriter>>

SkipsProcessedAlways(cfg) == TRUE

\* lines 91-106: the branch that calls dexer.NextBaseBlockAfter
SkipsProcessed(cfg) == ~cfg.EnableBatchMode

\* "return" of resolveStartBlock with an error
RA_Fail(err) == raPc' = "done" /\ raErr' = err

\* lines 91-104, up to the call of nextLiveStartBlock
RA_Start ==
    /\ raPc = "start"
    /\ IF raCfg.EnableBatchMode /\ raCfg.StartBlock < 0
       THEN RA_Fail(ErrNegativeBatch) /\ UNCHANGED raTarget
       ELSE IF raCfg.StartBlock >= 0
       THEN /\ raTarget' = ToUint64(raCfg.StartBlock)
            /\ raPc' = IF SkipsProcessed(raCfg) THEN "nextbase" ELSE "resolver"
            /\ UNCHANGED raErr
       ELSE /\ raPc' = "headinfo"
            /\ UNCHANGED <<raTarget, raErr>>
    /\ UNCHANGED <<raCfg, raLib, raStoreCalls>>

\* nextLiveStartBlock, lines 70-88, called at line 100 with a negative
\* StartBlock
RA_NextLiveStartBlock ==
    /\ raPc = "headinfo"
    /\ \/ /\ \E err \in {ErrHeadinfoClient, ErrLibInfo} : RA_Fail(err)
          /\ UNCHANGED <<raLib, raTarget>>
       \/ \E lib \in HeadinfoLibs :
             /\ raLib' = lib
             /\ raTarget' = ToUint64(ToInt64(lib) + raCfg.StartBlock)
             /\ raPc' = "nextbase"
             /\ UNCHANGED raErr
    /\ UNCHANGED <<raCfg, raStoreCalls>>

\* line 105: dexer.NextBaseBlockAfter(targetStartBlock) is called
RA_CallNextBase ==
    /\ raPc = "nextbase"
    /\ nbPc = "idle"
    /\ raStoreCalls' = Append(raStoreCalls, raTarget)
    /\ nbStartBlockNum' = raTarget
    /\ nbPc' = "list"
    /\ raPc' = "called"
    /\ UNCHANGED <<raCfg, raLib, raTarget, raErr>>
    /\ UNCHANGED <<nbShardSize, nbStore, nbListErr, nbRemote, nbIdx, nbCount,
                   nextStartBlockNum, nbResult>>

\* line 105: dexer.NextBaseBlockAfter has returned
RA_NextBaseReturned ==
    /\ raPc = "called"
    /\ nbPc = "done"
    /\ raTarget' = nbResult
    /\ raPc' = "resolver"
    /\ UNCHANGED <<raCfg, raLib, raErr, raStoreCalls>>

\* lines 108-109: StartBlockResolver.Resolve(ctx, targetStartBlock)
RA_Resolve ==
    /\ raPc = "resolver"
    /\ \E err \in {ErrNil, ErrResolver} : raErr' = err
    /\ raPc' = "done"
    /\ UNCHANGED <<raCfg, raLib, raTarget, raStoreCalls>>

NextIxResolve ==
    \/ RA_Start /\ UNCHANGED othersIxResolve
    \/ RA_NextLiveStartBlock /\ UNCHANGED othersIxResolve
    \/ RA_CallNextBase /\ UNCHANGED othersIxResolveCall
    \/ NB_ListFiles /\ UNCHANGED othersNextBase
    \/ NB_ScanFile /\ UNCHANGED othersNextBase
    \/ NB_Return /\ UNCHANGED othersNextBase
    \/ RA_NextBaseReturned /\ UNCHANGED othersIxResolve
    \/ RA_Resolve /\ UNCHANGED othersIxResolve

\* resolveStartBlock went as far as StartBlockResolver.Resolve
RA_Resolved == raPc = "done" /\ raErr \in {ErrNil, ErrResolver}

\* in batch mode a negative StartBlock is rejected with an error, and a
\* non-negative one is the target start block as it is, and the remote store
\* is not consulted; in live mode the target start block is what
\* NextBaseBlockAfter returned for the configured start block, or for
\* LIB + StartBlock when StartBlock is negative
RA_TargetIsNextBase ==
    /\ raCfg.EnableBatchMode =>
          /\ raStoreCalls = <<>> /\ nbPc = "idle"
          /\ (raPc = "done" /\ raCfg.StartBlock < 0) => raErr = ErrNegativeBatch
          /\ (raPc = "done" /\ raCfg.StartBlock >= 0) =>
                (RA_Resolved /\ raTarget = raCfg.StartBlock)
    /\ (~raCfg.EnableBatchMode /\ raPc \in {"resolver", "done"}) =>
          \/ raErr \in {ErrHeadinfoClient, ErrLibInfo} /\ raCfg.StartBlock < 0
          \/ /\ Len(raStoreCalls) = 1
             /\ nbPc = "done"
             /\ nbStartBlockNum = raStoreCalls[1]
             /\ raTarget = nbResult
             /\ raCfg.StartBlock >= 0 => raStoreCalls[1] = raCfg.StartBlock
             /\ (raCfg.StartBlock < 0 /\ raLib + raCfg.StartBlock >= 0) =>
                   raStoreCalls[1] = raLib + raCfg.StartBlock

\* C26: in batch mode a negative StartBlock is rejected with an error, and a
\* non-negative one is the target start block as it is, and the remote store
\* is not consulted; in live mode the target start block is what
\* NextBaseBlockAfter returned for the configured or LIB-relative start
\* block, and the shards the store already holds are skipped: the target
\* start block is not the base of one of them
C26_TargetSkipsProcessed ==
    /\ RA_TargetIsNextBase
    /\ (~raCfg.EnableBatchMode /\ RA_Resolved /\ ~nbListErr) =>
          ShardFileName(raTarget) \notin nbStore

\* a live indexer with StartBlock -3 and LIB 7 whose store holds the shards 4
\* and 6 resolved the target start block 6
C26_LiveReached ==
    /\ ~raCfg.EnableBatchMode /\ raCfg.StartBlock = 0 - 3 /\ raLib = 7
    /\ ShardFileName(4) \in nbStore /\ ShardFileName(6) \in nbStore
    /\ RA_Resolved /\ ~nbListErr
    /\ raStoreCalls = <<4>>
    /\ raTarget = 6

\* a batch indexer that rejected a negative start block
C26_BatchRejected ==
    /\ raCfg.EnableBatchMode /\ raCfg.StartBlock < 0
    /\ raPc = "done" /\ raErr = ErrNegativeBatch

\* nextLiveStartBlock has returned for a negative StartBlock, and its result
\* is about to be passed to NextBaseBlockAfter
LiveStartReturned == raPc = "nextbase" /\ raCfg.StartBlock < 0

\* C37: for a negative StartBlock nextLiveStartBlock returns LIB + StartBlock,
\* a value <= the LIB number of the head-info service, for every LIB and
\* StartBlock, |StartBlock| > LIB included (no wrap-around in the unsigned
\* conversion).
C37_LiveStartBelowLIB ==
    LiveStartReturned =>
        /\ raTarget = raLib + raCfg.StartBlock
        /\ raTarget <= raLib

\* the same for the calls with |StartBlock| <= LIB
C37_LiveStartBelowLIBInRange ==
    (LiveStartReturned /\ raLib + raCfg.StartBlock >= 0) =>
        /\ raTarget = raLib + raCfg.StartBlock
        /\ raTarget <= raLib

\* nextLiveStartBlock returned LIB + StartBlock for |StartBlock| < LIB
C37_InRangeReached ==
    /\ LiveStartReturned
    /\ raLib = 7 /\ raCfg.StartBlock = -3
    /\ raTarget = 4

---------------------------------------------------------------------------
(* indexer_bigquery.BigQueryShardIndex.getOCFWriter and Index *)

\* the Index calls of one shard are counted up to MaxIndexCalls
MaxIndexCalls == 4

ErrMkdirAll == "os.MkdirAll error"
ErrOpenFile == "os.OpenFile error"
ErrGetWriter == "failed to get writer"
ErrAppend == "failed writing to scratch file"
\* a call of a method that reads a field of a nil *avro.Encoder
NilDereference == "panic: nil pointer dereference"

\* a nil *os.File or *avro.Encoder
Nil == "nil pointer"

\* the documents passed to Index
Docs == {"doc1", "doc2"}

\* a shard as newShardIndex leaves it: no scratch file, no writer; opened
\* and encoders count the os.OpenFile and ocf.NewEncoder calls that succeeded
NewScratch ==
    [buildTimeOcfFile |-> Nil, buildTimeOcfWriter |-> Nil, opened |-> 0,
     encoders |-> 0, scratch |-> <<>>]

\* getOCFWriter on the shard s, with the outcomes of os.MkdirAll, os.OpenFile
\* and ocf.NewEncoder: the shard afterwards and the values returned. The
\* encoder is assigned to the local x, never to s.buildTimeOcfWriter, and the
\* test after it reads the err of os.OpenFile, which is nil there
getOCFWriter(s, mkdirOK, openOK, encoderOK) ==
    IF s.buildTimeOcfWriter # Nil
    THEN [s |-> s, w |-> s.buildTimeOcfWriter, err |-> ErrNil]
    ELSE IF s.buildTimeOcfFile = Nil
    THEN IF ~mkdirOK
         THEN [s |-> s, w |-> Nil, err |-> ErrMkdirAll]
         ELSE IF ~openOK
         THEN [s |-> s, w |-> Nil, err |-> ErrOpenFile]
         ELSE LET t == [s EXCEPT !.buildTimeOcfFile = "building",
                                 !.opened = s.opened + 1,
                                 !.encoders = IF encoderOK THEN s.encoders + 1
                                              ELSE s.encoders]
              IN  [s |-> t, w |-> t.buildTimeOcfWriter, err |-> ErrNil]
    ELSE [s |-> s, w |-> s.buildTimeOcfWriter, err |-> ErrNil]

\* Index(doc): the writer is obtained and the document appended through it;
\* a nil writer makes w.Append panic
OW_Index ==
    /\ owPc = "running"
    /\ Len(owLog) < MaxIndexCalls
    /\ \E doc \in Docs, mkdirOK \in BOOLEAN, openOK \in BOOLEAN,
          encoderOK \in BOOLEAN, appendOK \in BOOLEAN :
          LET r == getOCFWriter(owShard, mkdirOK, openOK, encoderOK)
          IN  /\ owRet' = [w |-> r.w, err |-> r.err]
              /\ IF r.err # ErrNil
                 THEN /\ owShard' = r.s
                      /\ owLog' = Append(owLog, [doc |-> doc, err |-> ErrGetWriter])
                      /\ UNCHANGED owPc
                 ELSE IF r.w = Nil
                 THEN /\ owShard' = r.s
                      /\ owLog' = Append(owLog, [doc |-> doc, err |-> NilDereference])
                      /\ owPc' = "panicked"
                 ELSE IF ~appendOK
                 THEN /\ owShard' = r.s
                      /\ owLog' = Append(owLog, [doc |-> doc, err |-> ErrAppend])
                      /\ UNCHANGED owPc
                 ELSE /\ owShard' = [r.s EXCEPT !.scratch = Append(r.s.scratch, doc)]
                      /\ owLog' = Append(owLog, [doc |-> doc, err |-> ErrNil])
                      /\ UNCHANGED owPc

NextWriter == OW_Index /\ UNCHANGED othersWriter

\* the documents of the Index calls that returned nil, in order
RECURSIVE IndexedDocs(_)
IndexedDocs(log) ==
    IF log = <<>> THEN <<>>
    ELSE LET rest == IndexedDocs(SubSeq(log, 1, Len(log) - 1))
             last == log[Len(log)]
         IN  IF last.err = ErrNil THEN Append(rest, last.doc) ELSE rest

\* C39: getOCFWriter opens the scratch file of the shard and creates its
\* writer at most once, on first use, and whenever it returns a nil error it
\* returns a non-nil writer, so that every Index(doc) call that obtains a
\* writer appends the document to that same scratch file.
C39_WriterCreatedOnce ==
    /\ owShard.opened <= 1
    /\ owShard.encoders <= 1
    /\ (owRet.err = ErrNil) => (owRet.w # Nil)
    /\ \A i \in 1..Len(owLog) : owLog[i].err # NilDereference
    /\ owShard.scratch = IndexedDocs(owLog)

\* the part of C39 that holds: the scratch file is opened and an encoder
\* created at most once, and a failed getOCFWriter returns no writer
C39_OpenedOnce ==
    /\ owShard.opened <= 1
    /\ owShard.encoders <= 1
    /\ owShard.opened = 1 <=> owShard.buildTimeOcfFile # Nil
    /\ (owRet.err \notin {ErrNil, "none"}) => (owRet.w = Nil)

\* the scratch file was opened after two failed attempts
C39_OpenedReached ==
    /\ Len(owLog) = 3
    /\ owLog[1].err = ErrGetWriter /\ owLog[2].err = ErrGetWriter
    /\ owShard.opened = 1 /\ owShard.encoders = 1

---------------------------------------------------------------------------
(* Specifications *)

\* the value every variable of a component has before the component runs
IdleBoot ==
    /\ shardSize = 1
    /\ StartBlockNum = 0
    /\ bootCalls = <<>>
    /\ bootErr = "none"
    /\ pipelineBootstraps = <<>>

IdleResolve ==
    /\ rsStartBlock = 0
    /\ rsShardSize = 1
    /\ rsIrrBlockNum = 0
    /\ rsOut = Pending

IdleNextBase ==
    /\ nbShardSize = 1
    /\ nbStore = {}
    /\ nbStartBlockNum = 0
    /\ nbPc = "list"
    /\ nbListErr = FALSE
    /\ nbRemote = <<>>
    /\ nbIdx = 1
    /\ nbCount = 0
    /\ nextStartBlockNum = 0
    /\ nbResult = 0

IdleFork ==
    /\ frRefs = <<>>
    /\ frPc = "check"
    /\ frCanceled = FALSE
    /\ frParsed = FALSE
    /\ frErr = "none"
    /\ frBounds = [lowest |-> 0, highest |-> 0, libnum |-> 0]
    /\ frRefsMap = {}
    /\ frOut = <<>>
    /\ frComplete = FALSE
    /\ frSrc = "idle"
    /\ frDelivered = <<>>
    /\ frBlocks = [blocks |-> <<>>, libnum |-> 0, err |-> "none"]
    /\ frBlkIdx = 1
    /\ frMatches = <<>>
    /\ frI = 0
    /\ frSent = <<>>
    /\ frExit = "none"

IdleStream ==
    /\ smReq = ZeroRequest
    /\ smPeer = [tail |-> 0, irr |-> 0, head |-> 0]
    /\ smPc = "options"
    /\ smCanceled = FALSE
    /\ smParsed = FALSE
    /\ smInstalled = FALSE
    /\ smTrailer = 0
    /\ smStreamTrailer = <<>>
    /\ smRun = "idle"
    /\ smResults = <<>>
    /\ smErrors = <<>>
    /\ smEmitted = <<>>
    /\ smLastBlockRead = 0
    /\ smSent = <<>>
    /\ smErr = "none"
    /\ smExit = "none"

IdleService ==
    /\ svKind = "archive"
    /\ svTrace = <<>>
    /\ pePeer = NewSearchPeer
    /\ peOps = <<>>
    /\ aaCfg = ZeroConfig
    /\ aaIrr = 0
    /\ aaPc = "publish"
    /\ aaRet = "none"
    /\ aaResolved = 0
    /\ aaPoolErr = FALSE
    /\ aaLast = [num |-> 0, id |-> ""]
    /\ aaShut = "up"
    /\ aaOnTerm = FALSE
    /\ abPc = "none"
    /\ abShut = "up"
    /\ abRegistered = FALSE
    /\ abHasPeer = TRUE
    /\ abHTTP = "nil"
    /\ abShuttingDown = FALSE
    /\ abClosed = FALSE
    /\ stPc = "idle"
    /\ fsPc = "listen"
    /\ fsShut = "up"
    /\ fsServing = FALSE
    /\ fsShutdowns = <<>>

IdleLaunch ==
    /\ ixAppShut = "up"
    /\ ixShut = "up"
    /\ ixShutErr = "none"
    /\ ixRegistered = FALSE
    /\ ixPc = "register"
    /\ ixCb = "idle"
    /\ ixSrc = "idle"
    /\ ixSrcErr = ErrNil
    /\ ixSrcShutdowns = <<>>
    /\ ixShuttingDown = FALSE
    /\ ixUploads = 0
    /\ ixWaited = FALSE
    /\ ixLaunchArg = "none"

IdleStart ==
    /\ gsTolerance = 0
    /\ gsTerminating = FALSE
    /\ gsPc = "idle"
    /\ gsIterations = FALSE
    /\ gsSeen = NothingSeen
    /\ gsRet = [ref |-> NilRef, err |-> "none"]
    /\ gsAfterTerm = 0
    /\ laPc = "setup"
    /\ laRet = "none"
    /\ laHub = FALSE
    /\ laLaunched = FALSE

IdlePipe ==
    /\ ppMode = "batch"
    /\ ppPc = "build"
    /\ ppStart = 0
    /\ ppLookback = 0
    /\ ppLast = [id |-> "a", num |-> 0]
    /\ ppFrom = 0
    /\ ppGateID = [id |-> "a", num |-> 0]
    /\ ppPassed = FALSE
    /\ ppRestarts = 0
    /\ ppSrcNext = 0
    /\ ppSourced = {}
    /\ ppReceived = {}
    /\ ppThrough = {}
    /\ ppIrrNum = 0
    /\ ppHandled = {}

IdleShard ==
    /\ shBase = 0
    /\ shSize = 1
    /\ shPc = "new"
    /\ shShard = NoShard
    /\ shNextShard = NoShard
    /\ shNum = 0 - 1
    /\ shIn = FALSE
    /\ shInNext = FALSE

IdlePreIndex ==
    /\ piBlock = [Number |-> 1, ID |-> "a", Trxs |-> <<>>]
    /\ piQuery = Term("account", "eosio.token")
    /\ piLow = 0
    /\ piHigh = 0
    /\ piPc = "preprocess"
    /\ piIndex = NoIndex
    /\ piMatches = <<>>

IdleIxResolve ==
    /\ raCfg = [EnableBatchMode |-> FALSE, StartBlock |-> 0]
    /\ raPc = "start"
    /\ raLib = 0 - 1
    /\ raTarget = 0
    /\ raErr = "none"
    /\ raStoreCalls = <<>>

IdleWriter ==
    /\ owShard = NewScratch
    /\ owRet = [w |-> Nil, err |-> "none"]
    /\ owLog = <<>>
    /\ owPc = "running"

\* NewIndexer: the indexer as constructed, shardSize from the configuration
InitBoot ==
    /\ shardSize \in ShardSizes
    /\ StartBlockNum = 0
    /\ bootCalls = <<>>
    /\ bootErr = "none"
    /\ pipelineBootstraps = <<>>
    /\ IdleResolve /\ IdleNextBase /\ IdleFork /\ IdleStream /\ IdleService /\ IdleLaunch /\ IdleStart /\ IdlePipe /\ IdleShard /\ IdlePreIndex /\ IdleIxResolve /\ IdleWriter

\* the archive application before its start block is resolved
InitResolve ==
    /\ rsStartBlock \in StartBlocks
    /\ rsShardSize \in ShardSizes
    /\ rsIrrBlockNum \in IrrBlockNums
    /\ rsOut = Pending
    /\ IdleBoot /\ IdleNextBase /\ IdleFork /\ IdleStream /\ IdleService /\ IdleLaunch /\ IdleStart /\ IdlePipe /\ IdleShard /\ IdlePreIndex /\ IdleIxResolve /\ IdleWriter

\* an indexer and an indexes store, before NextBaseBlockAfter is called
InitNextBase ==
    /\ nbShardSize \in ShardSizes
    /\ nbStore \in SUBSET StoreNames(nbShardSize)
    /\ nbStartBlockNum \in BlockNums
    /\ nbPc = "list"
    /\ nbListErr = FALSE
    /\ nbRemote = <<>>
    /\ nbIdx = 1
    /\ nbCount = 0
    /\ nextStartBlockNum = 0
    /\ nbResult = 0
    /\ IdleBoot /\ IdleResolve /\ IdleFork /\ IdleStream /\ IdleService /\ IdleLaunch /\ IdleStart /\ IdlePipe /\ IdleShard /\ IdlePreIndex /\ IdleIxResolve /\ IdleWriter

\* a fork resolver receiving one StreamUndoMatches request
InitFork ==
    /\ frRefs \in Requests
    /\ frPc = "check"
    /\ frCanceled = FALSE
    /\ frParsed = FALSE
    /\ frErr = "none"
    /\ frBounds = [lowest |-> 0, highest |-> 0, libnum |-> 0]
    /\ frRefsMap = {}
    /\ frOut = <<>>
    /\ frComplete = FALSE
    /\ frSrc = "idle"
    /\ frDelivered = <<>>
    /\ frBlocks = [blocks |-> <<>>, libnum |-> 0, err |-> "none"]
    /\ frBlkIdx = 1
    /\ frMatches = <<>>
    /\ frI = 0
    /\ frSent = <<>>
    /\ frExit = "none"
    /\ IdleBoot /\ IdleResolve /\ IdleNextBase /\ IdleStream /\ IdleService /\ IdleLaunch /\ IdleStart /\ IdlePipe /\ IdleShard /\ IdlePreIndex /\ IdleIxResolve /\ IdleWriter

\* an archive backend with a published peer, receiving one StreamMatches request
InitStream ==
    /\ smReq \in BackendRequests
    /\ smPeer \in PeerPointers
    /\ smPc = "options"
    /\ smCanceled = FALSE
    /\ smParsed = FALSE
    /\ smInstalled = FALSE
    /\ smTrailer = 0
    /\ smStreamTrailer = <<>>
    /\ smRun = "idle"
    /\ smResults = <<>>
    /\ smErrors = <<>>
    /\ smEmitted = <<>>
    /\ smLastBlockRead = 0
    /\ smSent = <<>>
    /\ smErr = "none"
    /\ smExit = "none"
    /\ IdleBoot /\ IdleResolve /\ IdleNextBase /\ IdleFork /\ IdleService /\ IdleLaunch /\ IdleStart /\ IdlePipe /\ IdleShard /\ IdlePreIndex /\ IdleIxResolve /\ IdleWriter

\* a process that starts the archive application (App.Run creates the peer at
\* line 90 and hands it to NewBackend: b.searchPeer is never nil) or the fork
\* resolver (ForkResolver.Launch)
InitService ==
    /\ svKind \in {"archive", "forkresolver"}
    /\ svTrace = <<>>
    /\ pePeer = NewSearchPeer
    /\ peOps = <<>>
    /\ aaCfg \in IF svKind = "archive" THEN ArchiveConfigs ELSE {ZeroConfig}
    /\ aaIrr \in IF svKind = "archive" THEN MeshIrrNums ELSE {0}
    /\ aaPc = "publish"
    /\ aaRet = "none"
    /\ aaResolved = 0
    /\ aaPoolErr = FALSE
    /\ aaLast = [num |-> 0, id |-> ""]
    /\ aaShut = "up"
    /\ aaOnTerm = FALSE
    /\ abPc = "none"
    /\ abShut = "up"
    /\ abRegistered = FALSE
    /\ abHasPeer = TRUE
    /\ abHTTP = "nil"
    /\ abShuttingDown = FALSE
    /\ abClosed = FALSE
    /\ stPc = "idle"
    /\ fsPc = "listen"
    /\ fsShut = "up"
    /\ fsServing = FALSE
    /\ fsShutdowns = <<>>
    /\ IdleBoot /\ IdleResolve /\ IdleNextBase /\ IdleFork /\ IdleStream /\ IdleLaunch /\ IdleStart /\ IdlePipe /\ IdleShard /\ IdlePreIndex /\ IdleIxResolve /\ IdleWriter

\* an indexer whose application has executed "go dexer.Launch()"
InitLaunch ==
    /\ ixAppShut = "up"
    /\ ixShut = "up"
    /\ ixShutErr = "none"
    /\ ixRegistered = FALSE
    /\ ixPc = "register"
    /\ ixCb = "idle"
    /\ ixSrc = "idle"
    /\ ixSrcErr = ErrNil
    /\ ixSrcShutdowns = <<>>
    /\ ixShuttingDown = FALSE
    /\ ixUploads = 0
    /\ ixWaited = FALSE
    /\ ixLaunchArg = "none"
    /\ IdleBoot /\ IdleResolve /\ IdleNextBase /\ IdleFork /\ IdleStream /\ IdleService /\ IdleStart /\ IdlePipe /\ IdleShard /\ IdlePreIndex /\ IdleIxResolve /\ IdleWriter

\* a live application that calls getStartBlock
InitStart ==
    /\ gsTolerance \in 0..MaxTolerance
    /\ gsTerminating = FALSE
    /\ gsPc = "idle"
    /\ gsIterations = FALSE
    /\ gsSeen = NothingSeen
    /\ gsRet = [ref |-> NilRef, err |-> "none"]
    /\ gsAfterTerm = 0
    /\ laPc = "setup"
    /\ laRet = "none"
    /\ laHub = FALSE
    /\ laLaunched = FALSE
    /\ IdleBoot /\ IdleResolve /\ IdleNextBase /\ IdleFork /\ IdleStream /\ IdleService /\ IdleLaunch /\ IdlePipe /\ IdleShard /\ IdlePreIndex /\ IdleIxResolve /\ IdleWriter

\* an indexer before BuildBatchPipeline or BuildLivePipeline is called
InitPipe ==
    /\ ppMode \in {"batch", "live"}
    /\ ppPc = "build"
    /\ ppStart \in IF ppMode = "batch" THEN 0..MaxChain ELSE {0}
    /\ ppLookback \in IF ppMode = "batch" THEN 0..MaxLookback ELSE {0}
    /\ ppLast \in {b \in ChainBlocks : b.id = "a"}
    /\ ppFrom = 0
    /\ ppGateID = [id |-> "a", num |-> 0]
    /\ ppPassed = FALSE
    /\ ppRestarts = 0
    /\ ppSrcNext = 0
    /\ ppSourced = {}
    /\ ppReceived = {}
    /\ ppThrough = {}
    /\ ppIrrNum = ppLast.num
    /\ ppHandled = {}
    /\ IdleBoot /\ IdleResolve /\ IdleNextBase /\ IdleFork /\ IdleStream /\ IdleService /\ IdleLaunch /\ IdleStart /\ IdleShard /\ IdlePreIndex /\ IdleIxResolve /\ IdleWriter

\* no shard created yet
InitShard ==
    /\ shBase \in BlockNums
    /\ shSize \in 0..MaxShardSize
    /\ shPc = "new"
    /\ shShard = NoShard
    /\ shNextShard = NoShard
    /\ shNum = 0 - 1
    /\ shIn = FALSE
    /\ shInNext = FALSE
    /\ IdleBoot /\ IdleResolve /\ IdleNextBase /\ IdleFork /\ IdleStream /\ IdleService /\ IdleLaunch /\ IdleStart /\ IdlePipe /\ IdlePreIndex /\ IdleIxResolve /\ IdleWriter

\* a pre-indexer as NewPreIndexer returns it, before Preprocess is called
InitPreIndex ==
    /\ piBlock \in TestBlocks
    /\ piQuery \in ParsedQueries
    /\ piLow \in {0, 1, 2}
    /\ piHigh \in {1, 2, MaxUint64}
    /\ piPc = "preprocess"
    /\ piIndex = NoIndex
    /\ piMatches = <<>>
    /\ IdleBoot /\ IdleResolve /\ IdleNextBase /\ IdleFork /\ IdleStream /\ IdleService /\ IdleLaunch /\ IdleStart /\ IdlePipe /\ IdleShard /\ IdleIxResolve /\ IdleWriter

\* the indexer app after NewIndexerBigQuery, before resolveStartBlock is called
InitIxResolve ==
    /\ raCfg \in IndexerConfigs
    /\ raPc = "start"
    /\ raLib = 0 - 1
    /\ raTarget = 0
    /\ raErr = "none"
    /\ raStoreCalls = <<>>
    /\ nbShardSize \in IndexerShardSizes
    /\ nbStore \in SUBSET StoreNames(nbShardSize)
    /\ nbStartBlockNum = 0
    /\ nbPc = "idle"
    /\ nbListErr = FALSE
    /\ nbRemote = <<>>
    /\ nbIdx = 1
    /\ nbCount = 0
    /\ nextStartBlockNum = 0
    /\ nbResult = 0
    /\ IdleBoot /\ IdleResolve /\ IdleFork /\ IdleStream /\ IdleService /\ IdleLaunch /\ IdleStart /\ IdlePipe /\ IdleShard /\ IdlePreIndex /\ IdleWriter

\* a shard that has just been created by newShardIndex
InitWriter ==
    /\ owShard = NewScratch
    /\ owRet = [w |-> Nil, err |-> "none"]
    /\ owLog = <<>>
    /\ owPc = "running"
    /\ IdleBoot /\ IdleResolve /\ IdleNextBase /\ IdleFork /\ IdleStream /\ IdleService /\ IdleLaunch /\ IdleStart /\ IdlePipe /\ IdleShard /\ IdlePreIndex /\ IdleIxResolve

SpecBoot == InitBoot /\ [][NextBoot]_vars
SpecResolve == InitResolve /\ [][NextResolve]_vars
SpecNextBase == InitNextBase /\ [][NextNextBase]_vars
SpecFork == InitFork /\ [][NextFork]_vars
SpecStream == InitStream /\ [][NextStream]_vars
SpecService == InitService /\ [][NextService]_vars
SpecLaunch == InitLaunch /\ [][NextLaunch]_vars
SpecStart == InitStart /\ [][NextStart]_vars
SpecPipe == InitPipe /\ [][NextPipe]_vars
SpecShard == InitShard /\ [][NextShard]_vars
SpecPreIndex == InitPreIndex /\ [][NextPreIndex]_vars
SpecIxResolve == InitIxResolve /\ [][NextIxResolve]_vars
SpecWriter == InitWriter /\ [][NextWriter]_vars

=============================================================================
